---- MODULE Spec2Model ----
(***************************************************************************)
(* Time integrator (PhysicsAnimation) and per-substep pipeline             *)
(* (GridFluidSolver3) of FluidEngine.                                      *)
(*                                                                         *)
(* Real numbers (double) are modelled as exact rationals <<num, den>> with *)
(* den > 0 and gcd(num, den) = 1, so that "equal up to floating-point      *)
(* tolerance" becomes exact equality.                                      *)
(* Only the grid sampling, whose results are compared bit for bit, rounds  *)
(* every operation to a binary floating-point number of MantissaBits bits. *)
(***************************************************************************)
EXTENDS Integers, Sequences, FiniteSets, TLC

\* ------------------------------------------------------------------------
\* Exact rational arithmetic standing for double arithmetic
\* ------------------------------------------------------------------------
Abs(x) == IF x < 0 THEN -x ELSE x

RECURSIVE Gcd(_, _)
Gcd(a, b) == IF b = 0 THEN a ELSE Gcd(b, a % b)

Rat(n, d) == LET g == Gcd(Abs(n), d) IN <<n \div g, d \div g>>

Zero == <<0, 1>>
One == <<1, 1>>
FromInt(n) == <<n, 1>>

RAdd(a, b) == Rat(a[1] * b[2] + b[1] * a[2], a[2] * b[2])
RSub(a, b) == Rat(a[1] * b[2] - b[1] * a[2], a[2] * b[2])
RMul(a, b) == Rat(a[1] * b[1], a[2] * b[2])
\* a / b for b > 0
RDiv(a, b) == Rat(a[1] * b[2], a[2] * b[1])
RLeq(a, b) == a[1] * b[2] <= b[1] * a[2]
RLt(a, b) == a[1] * b[2] < b[1] * a[2]
RMax(a, b) == IF RLt(a, b) THEN b ELSE a
RMin(a, b) == IF RLt(b, a) THEN b ELSE a
RAbs(a) == <<Abs(a[1]), a[2]>>
\* std::ceil as an integer
RCeil(a) == -((-a[1]) \div a[2])

\* ------------------------------------------------------------------------
\* Rounded arithmetic: where a result is compared for exact equality the
\* doubles are binary floating-point numbers of MantissaBits significant
\* bits, every operation rounding to the nearest one (ties to even)
\* ------------------------------------------------------------------------
RECURSIVE pow2(_)
pow2(n) == IF n = 0 THEN 1 ELSE 2 * pow2(n - 1)

\* 2^e as a rational, for any integer e
scale(e) == IF e >= 0 THEN <<pow2(e), 1>> ELSE <<1, pow2(-e)>>

\* the exponent e with 2^(bits - 1) <= a / 2^e < 2^bits, for a > 0
RECURSIVE exponentOf(_, _, _)
exponentOf(a, bits, e) ==
    IF ~RLt(RMul(a, scale(-e)), FromInt(pow2(bits))) THEN exponentOf(a, bits, e + 1)
    ELSE IF RLt(RMul(a, scale(-e)), FromInt(pow2(bits - 1)))
         THEN exponentOf(a, bits, e - 1)
         ELSE e

\* the integer nearest to a scaled magnitude, ties to even
nearest(scaled) ==
    LET m == scaled[1] \div scaled[2]
        twiceRest == RSub(RMul(FromInt(2), scaled), FromInt(2 * m))
        up == \/ RLt(One, twiceRest)
              \/ twiceRest = One /\ m % 2 = 1
    IN IF up THEN m + 1 ELSE m

\* the nearest number of that many significant bits to the magnitude a > 0:
\* its exponent is taken once, then the mantissa
roundedMagnitude(a, bits) ==
    CHOOSE magnitude \in {RMul(FromInt(nearest(RMul(a, scale(-e)))), scale(e)) :
                              e \in {exponentOf(a, bits, 0)}} : TRUE

roundedTo(q, bits) ==
    IF q[1] = 0 THEN Zero
    ELSE LET magnitude == roundedMagnitude(RAbs(q), bits)
         IN IF q[1] < 0 THEN <<-magnitude[1], magnitude[2]>> ELSE magnitude

\* ------------------------------------------------------------------------
\* Bounds of the model
\* ------------------------------------------------------------------------
\* largest frame index the caller asks for
MaxFrameIndex == 1
\* advancing update() calls that are told apart (this many or more count alike)
ManyUpdates == 2
\* layers the caller adds to each advectable collection of the grid system
MaxLayers == 2
\* significant bits of a double where rounding is modelled
MantissaBits == 4
\* points handed to one build of the hash grid searcher
MaxPoints == 3
\* setter calls made on one fluid solver
MaxSetterCalls == 3

\* ------------------------------------------------------------------------
\* Program constants and input sets
\* ------------------------------------------------------------------------
\* kEpsilonD of Utils/Constants.h: the small positive tolerance of the loops
kEpsilonD == <<1, 8>>

\* seconds per frame the caller uses
Intervals == {<<1, 1>>, <<1, 8>>}
Frames == [index : -1 .. MaxFrameIndex, timeIntervalInSeconds : Intervals]

\* values handed to setNumberOfFixedSubTimeSteps (unsigned int)
FixedCounts == 0 .. 2
\* values handed to setMaxCfl
CflInputs == {<<1, 3>>, <<2, 1>>}
\* values handed to setGravity
Gravities == {<<Zero, Zero, Zero>>, <<Zero, <<-1, 2>>, Zero>>}
\* values handed to setViscosityCoefficient
Viscosities == {<<-1, 1>>, <<1, 1>>}
\* grid resolution and spacing handed to the constructor
InitResolution == <<2, 1, 1>>
InitSpacing == <<<<3, 2>>, One, <<2, 1>>>>
\* grid resolutions and spacings handed to resizeGrid
Resizes == {<<InitResolution, InitSpacing>>, <<<<0, 1, 1>>, <<One, <<1, 2>>, One>>>>}

\* cell-center velocities an external solver, emitter or boundary solver
\* may leave in a cell
CellVelocities == {<<Zero, Zero, Zero>>, <<<<-2, 1>>, One, Zero>>}

CellsOf(res) == (0 .. res[1] - 1) \X (0 .. res[2] - 1) \X (0 .. res[3] - 1)
VelocityFields(res) == [CellsOf(res) -> CellVelocities]

\* ------------------------------------------------------------------------
\* State
\* ------------------------------------------------------------------------
VARIABLES
    \* PhysicsAnimation
    currentFrame,               \* _currentFrame
    currentTime,                \* _currentTime
    isInitialized,              \* _isInitialized
    isUsingFixedSubTimeSteps,   \* _isUsingFixedSubTimeSteps
    numberOfFixedSubTimeSteps,  \* _numberOfFixedSubTimeSteps
    \* GridFluidSolver3
    gravity,                    \* _gravity
    viscosityCoefficient,       \* _viscosityCoefficient
    maxCfl,                     \* _maxCfl
    advectionSolver,            \* _advectionSolver != nullptr
    diffusionSolver,            \* _diffusionSolver != nullptr
    pressureSolver,             \* _pressureSolver != nullptr
    boundaryConditionSolver,    \* _boundaryConditionSolver != nullptr
    collider,                   \* _collider != nullptr
    emitter,                    \* _emitter != nullptr
    resolution,                 \* _grids->resolution()
    gridSpacing,                \* _grids->gridSpacing()
    velocity,                   \* _grids->velocity(), as its cell-center values
    advectableScalarData,       \* _grids->numberOfAdvectableScalarData()
    advectableVectorData,       \* layouts of the advectable vector layers
    \* control: where the single simulation thread is
    pc,
    frame,                      \* argument of the running / last update call
    numberOfFrames,             \* local of onUpdate
    frameI,                     \* loop index i of onUpdate
    remainingTime,              \* local of advanceTimeStep (adaptive)
    actualTimeInterval,         \* local of advanceTimeStep
    stepI,                      \* loop index i of advanceTimeStep (fixed)
    \* observation
    updated,                    \* update() has been called
    advancingUpdates,           \* update() calls that found a later frame
    advances,                   \* intervals given to advanceTimeStep by the
                                \* running update call
    initCalls,                  \* onInitialize() calls made so far
    stepsBeforeInit,            \* onAdvanceTimeStep ran before onInitialize
    steps,                      \* sizes given to onAdvanceTimeStep by the
                                \* running / last advanceTimeStep
    calls,                      \* calls made by the running / last substep
    lastVelocityWrite,          \* who wrote the velocity grid last
    advections,                 \* advect / extrapolate calls of the last computeAdvection
    solves                      \* clones, solver calls and grid writes of the diffusion,
                                \* pressure and advection stages of the running / last
                                \* substep, with the grids they name

animVars == <<currentFrame, currentTime, isInitialized,
              isUsingFixedSubTimeSteps, numberOfFixedSubTimeSteps>>
solverVars == <<gravity, viscosityCoefficient, maxCfl, advectionSolver,
                diffusionSolver, pressureSolver, boundaryConditionSolver,
                collider, emitter>>
gridVars == <<resolution, gridSpacing, velocity, advectableScalarData,
              advectableVectorData>>
ctlVars == <<pc, frame, numberOfFrames, frameI, remainingTime,
             actualTimeInterval, stepI>>
obsVars == <<updated, advancingUpdates, advances, initCalls, stepsBeforeInit, steps, calls,
             lastVelocityWrite, advections, solves>>
fluidVars == <<animVars, solverVars, gridVars, ctlVars, obsVars>>

\* A boundary-condition solver and the velocity grid it constrains
VARIABLES
    bndVariant,                 \* class of the solver; "none" before construction
    closedDomainBoundaryFlag,   \* _closedDomainBoundaryFlag, as a set of directions
    bndCollider,                \* _collider
    bndGridSize,                \* _gridSize
    marker,                     \* GridBlockedBoundaryConditionSolver: _marker
    faceVelocity,               \* the face-centered grid handed to constrainVelocity
    baseVelocity,               \* that grid as the fractional base class left it
    bndCalls                    \* what the last constrainVelocity did

bndVars == <<bndVariant, closedDomainBoundaryFlag, bndCollider, bndGridSize, marker,
             faceVelocity, baseVelocity, bndCalls>>

\* A sparse matrix m, a second operand and the result of an operation
VARIABLES
    csrM,                       \* the MatrixCsr under construction: _size, _nonZeros,
                                \* _rowPointers, _columnIndices
    csrB,                       \* the argument of add / sub
    csrRet,                     \* the matrix add / sub returned
    csrOp                       \* the last operation and its arguments

csrVars == <<csrM, csrB, csrRet, csrOp>>

\* A 3-D array, with the arrays it was resized from
VARIABLES
    array3,                     \* the Array<T, 3>: _size and _data
    array3Before,               \* the array before the last resize
    array3Original,             \* the array before the resize before that one
    array3Op                    \* the last operation and its arguments

arrVars == <<array3, array3Before, array3Original, array3Op>>

\* An array sampler and what its last call did
VARIABLES
    sampler,                    \* _gridSpacing, _invGridSpacing, _origin and the class
    samplerCall                 \* the last call: its name and the steps it took

smpVars == <<sampler, samplerCall>>

\* Two scalar grids and the last sample taken from the first
VARIABLES
    scalarGrids,                \* ScalarGrid3 objects: geometry, _data,
                                \* _linearSampler and _sampler of each
    gridCall                    \* the last sample(x): its argument and result

sgVars == <<scalarGrids, gridCall>>

\* A grid system on its own and the last call made on it
VARIABLES
    gridSystem,                 \* GridSystemData3: _resolution, _velocityIdx,
                                \* _velocity and the four layer lists
    gridSystemCall              \* the last call: its name, what it returned and
                                \* the layer counts before it

gsVars == <<gridSystem, gridSystemCall>>

\* state of an extrapolation into the collider
VARIABLES
    targetGrid,                 \* the grid handed to extrapolateIntoCollider
    colliderField,              \* the collider distance field of the boundary solver
    extrapolations              \* the extrapolateToRegion calls of the last
                                \* extrapolateIntoCollider

extVars == <<targetGrid, colliderField, extrapolations>>

\* state of a RenderParameters object
VARIABLES
    renderParameters,           \* offset of the next parameter, metadata, names and buffer
    parameterCall               \* the last add or set call and the object before it

rpVars == <<renderParameters, parameterCall>>

\* state of a PointParallelHashGridSearcher3
VARIABLES
    searcher,                   \* resolution, spacing, points, keys, tables and sorted indices
    building,                   \* the running build: its position, argument, keys and pending iterations
    nearby                      \* the last query and what it gave

hgVars == <<searcher, building, nearby>>

\* state of a GridFluidSolver3 whose setters are called
VARIABLES
    fluidSolver,                \* its domain flag, pressure solver and boundary-condition solver
    setterCalls                 \* the setter calls made on it since it was constructed

wrVars == <<fluidSolver, setterCalls>>

\* the objects that are exercised on their own
unitVars == <<bndVars, csrVars, arrVars, smpVars, sgVars, gsVars, extVars, rpVars,
              hgVars, wrVars>>
bndOthers == <<fluidVars, csrVars, arrVars, smpVars, sgVars, gsVars, extVars,
              rpVars, hgVars, wrVars>>
csrOthers == <<fluidVars, bndVars, arrVars, smpVars, sgVars, gsVars, extVars,
              rpVars, hgVars, wrVars>>
arrOthers == <<fluidVars, bndVars, csrVars, smpVars, sgVars, gsVars, extVars,
              rpVars, hgVars, wrVars>>
smpOthers == <<fluidVars, bndVars, csrVars, arrVars, sgVars, gsVars, extVars,
              rpVars, hgVars, wrVars>>
sgOthers == <<fluidVars, bndVars, csrVars, arrVars, smpVars, gsVars, extVars,
              rpVars, hgVars, wrVars>>
gsOthers == <<fluidVars, bndVars, csrVars, arrVars, smpVars, sgVars, extVars,
              rpVars, hgVars, wrVars>>
extOthers == <<fluidVars, bndVars, csrVars, arrVars, smpVars, sgVars, gsVars,
              rpVars, hgVars, wrVars>>
rpOthers == <<fluidVars, bndVars, csrVars, arrVars, smpVars, sgVars, gsVars,
              extVars, hgVars, wrVars>>
hgOthers == <<fluidVars, bndVars, csrVars, arrVars, smpVars, sgVars, gsVars,
              extVars, rpVars, wrVars>>
wrOthers == <<fluidVars, bndVars, csrVars, arrVars, smpVars, sgVars, gsVars,
              extVars, rpVars, hgVars>>

vars == <<fluidVars, unitVars>>

\* ------------------------------------------------------------------------
\* Pure functions
\* ------------------------------------------------------------------------
\* Frame::timeInSeconds
timeInSeconds(f) == RMul(FromInt(f.index), f.timeIntervalInSeconds)

\* ++f on a Frame
nextFrame(f) == [f EXCEPT !.index = f.index + 1]

\* the largest element of a non-empty set of rationals
MaxOf(S) == CHOOSE m \in S : \A x \in S : RLeq(x, m)

min3(x, y, z) == RMin(RMin(x, y), z)

lengthSquared(v) == RAdd(RAdd(RMul(v[1], v[1]), RMul(v[2], v[2])), RMul(v[3], v[3]))

\* GridFluidSolver3::cfl: maxVel starts at 0.0 and is raised by std::max with
\* each component of (cell-center velocity + dt * gravity), cell by cell
maxVel(timeIntervalInSeconds) ==
    LET v == {RAdd(velocity[c][a], RMul(timeIntervalInSeconds, gravity[a])) :
                 c \in DOMAIN velocity, a \in 1 .. 3}
    IN MaxOf(v \cup {Zero})

minGridSize == min3(gridSpacing[1], gridSpacing[2], gridSpacing[3])

cfl(timeIntervalInSeconds) ==
    RDiv(RMul(maxVel(timeIntervalInSeconds), timeIntervalInSeconds), minGridSize)

\* variant: the ratio is rounded down instead of up
numberOfSubTimeSteps_floor(timeIntervalInSeconds) ==
    LET currentCfl == cfl(timeIntervalInSeconds)
        r == RDiv(currentCfl, maxCfl)
        n == r[1] \div r[2]
    IN IF n > 1 THEN n ELSE 1

\* GridFluidSolver3::numberOfSubTimeSteps
numberOfSubTimeSteps(timeIntervalInSeconds) ==
    LET currentCfl == cfl(timeIntervalInSeconds)
        n == RCeil(RDiv(currentCfl, maxCfl))
    IN IF n > 1 THEN n ELSE 1

\* depth handed to constrainVelocity and extrapolateToRegion
depth == RCeil(maxCfl)

\* GridSystemData3::velocityIndex: the velocity grid is the first advectable
\* vector layer (0-based)
velocityIndex == 0

\* variant: the grid counts as empty only when every axis is 0
emptyGrid_allAxes == resolution[1] = 0 /\ resolution[2] = 0 /\ resolution[3] = 0

emptyGrid == resolution[1] = 0 \/ resolution[2] = 0 \/ resolution[3] = 0

\* what an external collaborator that may write the velocity grid leaves
\* there: the field as it was, or any field of the grid's shape
written(v) == {v} \cup VelocityFields(resolution)

\* what an external solver leaves in its destination grid
solved == VelocityFields(resolution)

\* ------------------------------------------------------------------------
\* Boundary-condition solvers: grids, directions and colliders
\* ------------------------------------------------------------------------
kFluid == 1
kCollider == 0

Variants == {"Blocked2", "Fractional2", "Blocked3", "Fractional3"}
isBlocked(variant) == variant \in {"Blocked2", "Blocked3"}
dimensionOf(variant) == IF variant \in {"Blocked2", "Fractional2"} THEN 2 ELSE 3

\* the direction bit of the low and of the high boundary of an axis
directionOf(axis, high) ==
    IF axis = 1 THEN (IF high THEN "Right" ELSE "Left")
    ELSE IF axis = 2 THEN (IF high THEN "Up" ELSE "Down")
    ELSE (IF high THEN "Front" ELSE "Back")

\* kDirectionAll
Directions(dimension) ==
    {directionOf(axis, high) : axis \in 1 .. dimension, high \in BOOLEAN}

\* grids handed to updateCollider and to the velocity grid's constructor
GridSizes(dimension) == IF dimension = 2 THEN {<<2, 2>>, <<3, 1>>} ELSE {<<2, 1, 2>>}
FillValues == {1, -2}
\* flags handed to setClosedDomainBoundaryFlag
FlagInputs(dimension) == SUBSET Directions(dimension)
\* values the fractional projection may leave on a face next to the collider
Blends == {9}

\* forEachIndex of a grid of the given size
Cells(size) ==
    IF Len(size) = 2
    THEN (0 .. size[1] - 1) \X (0 .. size[2] - 1)
    ELSE (0 .. size[1] - 1) \X (0 .. size[2] - 1) \X (0 .. size[3] - 1)

\* the faces of a face-centered grid: u(i,j[,k]) is <<1, <<i,j[,k]>>>>, v is
\* axis 2, w is axis 3; the data of axis a has one more sample along a
Faces(size) ==
    UNION {{<<axis, c>> : c \in Cells([size EXCEPT ![axis] = @ + 1])} :
              axis \in 1 .. Len(size)}

\* uPosition / vPosition / wPosition for grid spacing 2 and origin 0
facePosition(face) ==
    [b \in 1 .. Len(face[2]) |->
        2 * face[2][b] + (IF b = face[1] THEN 0 ELSE 1)]

\* the index c shifted by d along the axis
shifted(c, axis, d) == [c EXCEPT ![axis] = @ + d]

\* colliders: none, or a rigid body covering the cell column at (at[1], at[2])
\* that moves with a linear velocity and spins about the z axis
NullCollider == [null |-> TRUE, at |-> <<0, 0>>, linearVelocity |-> <<0, 0, 0>>,
                 angularVelocity |-> 0]
Colliders ==
    {NullCollider,
     [null |-> FALSE, at |-> <<0, 0>>, linearVelocity |-> <<3, 4, 5>>,
      angularVelocity |-> 1],
     [null |-> FALSE, at |-> <<1, 1>>, linearVelocity |-> <<-3, 0, 6>>,
      angularVelocity |-> 2]}

\* RigidBodyCollider::velocityAt with the body at the origin
velocityAt(c, point) ==
    <<c.linearVelocity[1] - c.angularVelocity * point[2],
      c.linearVelocity[2] + c.angularVelocity * point[1],
      c.linearVelocity[3]>>

\* sign of the collider SDF that the fractional onColliderUpdated samples at
\* a cell center: +infinity everywhere without a collider
colliderSdf(c, cell) ==
    IF c.null THEN 1
    ELSE IF cell[1] = c.at[1] /\ cell[2] = c.at[2] THEN -1 ELSE 1

isInsideSdf(phi) == phi < 0

\* ------------------------------------------------------------------------
\* MatrixCsr: the stored form and its pure operations
\* ------------------------------------------------------------------------
\* hasElement's "not stored"
kMaxSize == -1

\* dense inputs: initializer lists and matrix expressions, as tuples of rows
Shapes == {<<0, 0>>, <<1, 2>>, <<2, 2>>}
Values == {0, 1, -2}
\* with this cutoff 0 and 1 are dropped and -2 is kept
Epsilons == {1}
DenseMatrices == UNION {[1 .. sh[1] -> [1 .. sh[2] -> Values]] : sh \in Shapes}
shapeOf(D) == <<Len(D), IF Len(D) > 0 THEN Len(D[1]) ELSE 0>>

\* a matrix object; defined is FALSE once an operation has read or written
\* outside its vectors. Indices are 0-based as in the source: vector element
\* k is at position k + 1 of the sequence
Matrix(size, nonZeros, rowPointers, columnIndices) ==
    [defined |-> TRUE, size |-> size, nonZeros |-> nonZeros,
     rowPointers |-> rowPointers, columnIndices |-> columnIndices]
Undefined == [defined |-> FALSE, size |-> <<0, 0>>, nonZeros |-> <<>>,
              rowPointers |-> <<>>, columnIndices |-> <<>>]

\* MatrixCsr::clear, and the state MatrixCsr() leaves
cleared == Matrix(<<0, 0>>, <<>>, <<0>>, <<>>)

\* the entries of a dense row from column j on that compress keeps, as
\* <<value, column>> pairs
RECURSIVE kept(_, _, _)
kept(row, epsilon, j) ==
    IF j >= Len(row) THEN <<>>
    ELSE (IF Abs(row[j + 1]) > epsilon THEN <<(<<row[j + 1], j>>)>> ELSE <<>>)
         \o kept(row, epsilon, j + 1)

firsts(pairs) == [k \in 1 .. Len(pairs) |-> pairs[k][1]]
seconds(pairs) == [k \in 1 .. Len(pairs) |-> pairs[k][2]]

\* the row loop of compress from row i on (1-based here), acc being the
\* vectors built so far
RECURSIVE compressRows(_, _, _, _)
compressRows(D, epsilon, i, acc) ==
    IF i > Len(D)
    THEN [acc EXCEPT !.rowPointers = Append(@, Len(acc.nonZeros))]
    ELSE compressRows(D, epsilon, i + 1,
            [acc EXCEPT !.rowPointers = Append(@, Len(acc.nonZeros)),
                        !.nonZeros = @ \o firsts(kept(D[i], epsilon, 0)),
                        !.columnIndices = @ \o seconds(kept(D[i], epsilon, 0))])

\* compress(initializer list): all three vectors are cleared first
compressList(D, epsilon) ==
    compressRows(D, epsilon, 1, Matrix(shapeOf(D), <<>>, <<>>, <<>>))

\* compress(matrix expression): _nonZeros and _columnIndices are cleared,
\* _rowPointers is not
compressExpression(m, D, epsilon) ==
    compressRows(D, epsilon, 1, Matrix(shapeOf(D), <<>>, m.rowPointers, <<>>))

\* vector::insert at offset k
InsertAt(q, k, x) == SubSeq(q, 1, k) \o <<x>> \o SubSeq(q, k + 1, Len(q))

\* std::sort of the zipped <<value, column>> pairs by column
RECURSIVE sortByColumn(_)
sortByColumn(pairs) ==
    IF pairs = <<>> THEN <<>>
    ELSE LET rest == sortByColumn(SubSeq(pairs, 1, Len(pairs) - 1))
             p == pairs[Len(pairs)]
             k == Cardinality({x \in 1 .. Len(rest) : rest[x][2] <= p[2]})
         IN InsertAt(rest, k, p)

\* MatrixCsr::addRow
withRow(m, pairs) ==
    LET zipped == sortByColumn(pairs)
        nonZeros == m.nonZeros \o firsts(zipped)
    IN Matrix(<<m.size[1] + 1,
                LET ys == {m.size[2]} \cup {pairs[k][2] + 1 : k \in 1 .. Len(pairs)}
                IN CHOOSE y \in ys : \A x \in ys : x <= y>>,
              nonZeros,
              Append(m.rowPointers, Len(nonZeros)),
              m.columnIndices \o seconds(zipped))

\* addElement's loop of addRow({}, {})
RECURSIVE withEmptyRows(_, _)
withEmptyRows(m, numRowsToAdd) ==
    IF numRowsToAdd <= 0 THEN m
    ELSE withEmptyRows(withRow(m, <<>>), numRowsToAdd - 1)

\* _rowPointers[i] and _rowPointers[i + 1] exist and delimit a range of
\* _columnIndices
rowReadable(m, i) ==
    /\ i + 2 <= Len(m.rowPointers)
    /\ m.rowPointers[i + 1] <= m.rowPointers[i + 2]
    /\ m.rowPointers[i + 2] <= Len(m.columnIndices)
    /\ Len(m.nonZeros) = Len(m.columnIndices)

\* std::lower_bound over _columnIndices[rowBegin, rowEnd)
lowerBound(columnIndices, rowBegin, rowEnd, j) ==
    LET notLess == {k \in rowBegin .. rowEnd - 1 : columnIndices[k + 1] >= j}
    IN IF notLess = {} THEN rowEnd ELSE CHOOSE k \in notLess : \A x \in notLess : k <= x

\* MatrixCsr::addElement
withElement(m, i, j, value) ==
    LET m1 == withEmptyRows(m, i - m.size[1] + 1)
    IN IF ~rowReadable(m1, i) THEN Undefined
       ELSE LET offset == lowerBound(m1.columnIndices, m1.rowPointers[i + 1],
                                     m1.rowPointers[i + 2], j)
            IN Matrix(<<m1.size[1], IF j + 1 > m1.size[2] THEN j + 1 ELSE m1.size[2]>>,
                      InsertAt(m1.nonZeros, offset, value),
                      [k \in 1 .. Len(m1.rowPointers) |->
                          IF k - 1 >= i + 1 THEN m1.rowPointers[k] + 1
                          ELSE m1.rowPointers[k]],
                      InsertAt(m1.columnIndices, offset, j))

\* hasElement reads inside the vectors
hasElementDefined(m, i, j) == i >= m.size[1] \/ j >= m.size[2] \/ rowReadable(m, i)

\* MatrixCsr::hasElement: index into _nonZeros, or kMaxSize
hasElement(m, i, j) ==
    IF i >= m.size[1] \/ j >= m.size[2] THEN kMaxSize
    ELSE LET found == {k \in m.rowPointers[i + 1] .. m.rowPointers[i + 2] - 1 :
                          m.columnIndices[k + 1] = j}
         IN IF found = {} THEN kMaxSize
            ELSE CHOOSE k \in found : \A x \in found : k <= x

\* MatrixCsr::operator()(i, j)
at(m, i, j) ==
    LET nzIndex == hasElement(m, i, j)
    IN IF nzIndex = kMaxSize THEN 0 ELSE m.nonZeros[nzIndex + 1]

\* MatrixCsr::setElement
withElementSet(m, i, j, value) ==
    IF ~hasElementDefined(m, i, j) THEN Undefined
    ELSE LET nzIndex == hasElement(m, i, j)
         IN IF nzIndex = kMaxSize THEN withElement(m, i, j, value)
            ELSE [m EXCEPT !.nonZeros[nzIndex + 1] = value]

\* std::plus / std::minus
apply(op, x, y) == IF op = "plus" THEN x + y ELSE x - y

\* the while loop of binaryOp over one row: a and b are the offsets of
\* colIterA and colIterB, row the <<value, column>> pairs pushed so far. The
\* first test dereferences colIterA whenever colIterB is not at its end, also
\* when colIterA is at the end of its row: it then reads the next row's first
\* column, or past the end of the vector (any value). Once an entry of a
\* later row is taken for this row, colIterA has passed colEndA and the loop
\* runs off the vector
RECURSIVE walkRow(_, _, _, _, _, _, _, _)
walkRow(A, B, op, a, b, aEnd, bEnd, row) ==
    LET takeA == walkRow(A, B, op, a + 1, b, aEnd, bEnd,
                         Append(row, <<apply(op, A.nonZeros[a + 1], 0),
                                       A.columnIndices[a + 1]>>))
        takeB == walkRow(A, B, op, a, b + 1, aEnd, bEnd,
                         Append(row, <<apply(op, 0, B.nonZeros[b + 1]),
                                       B.columnIndices[b + 1]>>))
        takeBoth == walkRow(A, B, op, a + 1, b + 1, aEnd, bEnd,
                            Append(row, <<apply(op, A.nonZeros[a + 1], B.nonZeros[b + 1]),
                                          B.columnIndices[b + 1]>>))
        overrun == {[ok |-> FALSE, row |-> <<>>]}
    IN IF a = aEnd /\ b = bEnd THEN {[ok |-> TRUE, row |-> row]}
       ELSE IF b = bEnd THEN takeA
       ELSE IF a >= Len(A.columnIndices) THEN overrun \cup takeB
       ELSE IF A.columnIndices[a + 1] < B.columnIndices[b + 1]
            THEN (IF a = aEnd THEN overrun ELSE takeA)
       ELSE IF a = aEnd \/ A.columnIndices[a + 1] > B.columnIndices[b + 1] THEN takeB
       ELSE takeBoth

\* the row loop of binaryOp from row i on: what it can return
RECURSIVE binaryRows(_, _, _, _, _)
binaryRows(A, B, op, i, ret) ==
    IF i >= A.size[1] THEN {ret}
    ELSE UNION {IF r.ok THEN binaryRows(A, B, op, i + 1, withRow(ret, r.row))
                ELSE {Undefined} :
                   r \in walkRow(A, B, op, A.rowPointers[i + 1], B.rowPointers[i + 1],
                                 A.rowPointers[i + 2], B.rowPointers[i + 2], <<>>)}

\* MatrixCsr::binaryOp
binaryOp(A, B, op) == binaryRows(A, B, op, 0, cleared)

\* ------------------------------------------------------------------------
\* Array<T, 3>: flat storage and resize
\* ------------------------------------------------------------------------
\* sizes and element values the arrays are built from
Size3s == {<<0, 0, 0>>, <<1, 1, 1>>, <<2, 1, 2>>, <<1, 2, 2>>, <<2, 2, 1>>}
Elements == {0, 1}
InitVals == {0, 5}

\* an array: _size and _data (element n of _data is data[n + 1])
Array3(size, data) == [size |-> size, data |-> data]

\* Array()
emptyArray3 == Array3(<<0, 0, 0>>, <<>>)

\* the indices (i, j, k) of an array of this size
indicesOf(size) ==
    {<<i, j, k>> : i \in 0 .. size[1] - 1, j \in 0 .. size[2] - 1,
                   k \in 0 .. size[3] - 1}

\* i + _size.x * (j + _size.y * k)
linearIndex(size, i, j, k) == i + size[1] * (j + size[2] * k)

\* at(i, j, k)
elementAt(a, i, j, k) == a.data[linearIndex(a.size, i, j, k) + 1]

\* at(pt)
valueAt(a, idx) == elementAt(a, idx[1], idx[2], idx[3])

\* an index below a size on every axis
inside(idx, size) == idx[1] < size[1] /\ idx[2] < size[2] /\ idx[3] < size[3]

\* grid(i, j, k) = value
withElementAt(a, i, j, k, value) ==
    Array3(a.size, [a.data EXCEPT ![linearIndex(a.size, i, j, k) + 1] = value])

minOf(x, y) == IF x < y THEN x ELSE y

\* the three nested loops of resize, i fastest and k slowest; n counts the
\* iterations done
RECURSIVE copyLoop(_, _, _, _, _, _)
copyLoop(grid, a, iMin, jMin, kMin, n) ==
    IF n >= iMin * jMin * kMin THEN grid
    ELSE LET i == n % iMin
             j == (n \div iMin) % jMin
             k == n \div (iMin * jMin)
         IN copyLoop(withElementAt(grid, i, j, k, elementAt(a, i, j, k)),
                     a, iMin, jMin, kMin, n + 1)

\* a variant of resize that does not copy
resized_filled(a, size, initVal) ==
    Array3(size, [n \in 1 .. size[1] * size[2] * size[3] |-> initVal])

\* resize(size, initVal): the array this array becomes
resized(a, size, initVal) ==
    LET grid == Array3(size, [n \in 1 .. size[1] * size[2] * size[3] |-> initVal])
    IN copyLoop(grid, a, minOf(size[1], a.size[1]), minOf(size[2], a.size[2]),
                minOf(size[3], a.size[3]), 0)

\* ------------------------------------------------------------------------
\* Array samplers: spacings, points and the steps of a call
\* ------------------------------------------------------------------------
SamplerClasses == {"nearest", "linear", "cubic"}

\* spacings are whole numbers here, so "greater than epsilon" is "positive"
SpacingComponents == {-1, 0, 1, 2}
Spacings == {<<x, y, z>> : x \in SpacingComponents, y \in SpacingComponents,
                           z \in SpacingComponents}
Points == {<<0, 0, 0>>, <<1, 2, 3>>}
Origins == {<<0, 0, 0>>}

\* the assertion on _gridSpacing
spacingAccepted(spacing) ==
    spacing[1] > 0 /\ spacing[2] > 0 /\ spacing[3] > 0

\* steps of a call
asserted(holds) == [step |-> "assert", holds |-> holds, by |-> <<>>]
divided(by) == [step |-> "divide", holds |-> TRUE, by |-> by]

\* numerator / denominator, component by component; a zero denominator
\* stands for the infinity or NaN the division gives
quotient(numerator, denominator) ==
    [c \in 1 .. 3 |-> [num |-> numerator[c], den |-> denominator[c]]]

\* no sampler yet
noSampler ==
    [class |-> "none", gridSpacing |-> <<>>, invGridSpacing |-> <<>>,
     origin |-> <<>>]

\* the constructors: only the linear sampler stores 1 / gridSpacing
constructed(class, spacing, gridOrigin) ==
    [class |-> class, gridSpacing |-> spacing,
     invGridSpacing |-> IF class = "linear"
                        THEN quotient(<<1, 1, 1>>, spacing) ELSE <<>>,
     origin |-> gridOrigin]

constructorSteps(class, spacing) ==
    IF class = "linear" THEN <<divided(spacing)>> ELSE <<>>

\* operator()(x) up to normalizedX: the assertion, then the division
samplingSteps(s, x) ==
    IF spacingAccepted(s.gridSpacing)
    THEN <<asserted(TRUE), divided(s.gridSpacing)>>
    ELSE <<asserted(FALSE)>>

normalizedX(s, x) ==
    quotient([c \in 1 .. 3 |-> x[c] - s.origin[c]], s.gridSpacing)

\* ------------------------------------------------------------------------
\* ScalarGrid3: data layout, samplers and linear interpolation
\* ------------------------------------------------------------------------
\* double arithmetic, each operation rounded
rounded(q) == CHOOSE r \in {roundedTo(v, MantissaBits) : v \in {q}} : TRUE
\* the operands are values before the operation is made
fAdd(a, b) == CHOOSE r \in {rounded(RAdd(x, y)) : x \in {a}, y \in {b}} : TRUE
fSub(a, b) == CHOOSE r \in {rounded(RSub(x, y)) : x \in {a}, y \in {b}} : TRUE
fMul(a, b) == CHOOSE r \in {rounded(RMul(x, y)) : x \in {a}, y \in {b}} : TRUE
\* a / b for b > 0
fDiv(a, b) == CHOOSE r \in {rounded(RDiv(x, y)) : x \in {a}, y \in {b}} : TRUE

\* the concrete grids: where the data points sit
Layouts == {"cellCentered", "vertexCentered"}

\* dataSize()
dataSizeOf(layout, res) ==
    IF layout = "cellCentered" \/ res = <<0, 0, 0>> THEN res
    ELSE <<res[1] + 1, res[2] + 1, res[3] + 1>>

\* dataOrigin()
dataOriginOf(layout, gridOrigin, spacing) ==
    IF layout = "cellCentered"
    THEN [c \in 1 .. 3 |-> fAdd(gridOrigin[c], fMul(<<1, 2>>, spacing[c]))]
    ELSE gridOrigin

\* inputs: data sizes, spacings (1, 0.1 and 0.3 as doubles), origins, values
DataSizes == {<<0, 0, 0>>, <<2, 1, 1>>, <<1, 2, 2>>}
GridResolutions(layout) ==
    {res \in (0 .. 2) \X (0 .. 2) \X (0 .. 2) : dataSizeOf(layout, res) \in DataSizes}
Tenth == rounded(<<1, 10>>)
ThreeTenths == rounded(<<3, 10>>)
GridSpacings == {<<One, One, One>>, <<ThreeTenths, Tenth, One>>}
GridOrigins == {<<Zero, Zero, Zero>>, <<One, Zero, Zero>>}
Samples == {Zero, One}
InitialValues == {Zero}

\* ConstArrayAccessor3: the address of the elements and their extent
accessorOf(buffer, size) == [buffer |-> buffer, size |-> size]

\* LinearArraySampler3(accessor, gridSpacing, gridOrigin)
linearArraySampler(accessor, spacing, gridOrigin) ==
    [accessor |-> accessor, gridSpacing |-> spacing, origin |-> gridOrigin]

\* an empty std::function, and LinearArraySampler::functor()
unsetFunction == [set |-> FALSE, sampler |-> <<>>]
functor(s) == [set |-> TRUE, sampler |-> s]

\* ScalarGrid3(): an empty grid of unit spacing; _sampler is not assigned
constructedScalarGrid(layout) ==
    [layout |-> layout, resolution |-> <<0, 0, 0>>,
     gridSpacing |-> <<One, One, One>>, origin |-> <<Zero, Zero, Zero>>,
     data |-> emptyArray3, buffer |-> 0,
     linearSampler |-> linearArraySampler(accessorOf(0, <<0, 0, 0>>),
                                          <<One, One, One>>, <<Zero, Zero, Zero>>),
     sampler |-> unsetFunction]

\* _data.constAccessor()
constAccessor(g) == accessorOf(g.buffer, g.data.size)

\* dataOrigin() of a grid
dataOrigin(g) == dataOriginOf(g.layout, g.origin, g.gridSpacing)

\* resetSampler()
withSamplerReset(g) ==
    LET s == linearArraySampler(constAccessor(g), g.gridSpacing, dataOrigin(g))
    IN [g EXCEPT !.linearSampler = s, !.sampler = functor(s)]

\* setSizeParameters(resolution, gridSpacing, origin)
withSizeParameters(g, res, spacing, gridOrigin) ==
    [g EXCEPT !.resolution = res, !.gridSpacing = spacing, !.origin = gridOrigin]

\* the lowest address no array and no sampler holds
freshBuffer(grids) ==
    LET used == UNION {{grids[n].buffer, grids[n].linearSampler.accessor.buffer}
                       \cup (IF grids[n].sampler.set
                             THEN {grids[n].sampler.sampler.accessor.buffer}
                             ELSE {}) : n \in DOMAIN grids}
    IN CHOOSE b \in 1 .. Cardinality(used) + 1 :
           b \notin used /\ \A c \in 1 .. b - 1 : c \in used

\* resize(resolution, gridSpacing, origin, initialValue); Array3::resize
\* moves the elements to a new vector
scalarGridResized(g, res, spacing, gridOrigin, initialValue, fresh) ==
    LET sized == withSizeParameters(g, res, spacing, gridOrigin)
        array == resized(g.data, dataSizeOf(g.layout, res), initialValue)
    IN withSamplerReset([sized EXCEPT !.data = array,
                                      !.buffer = IF Len(array.data) = 0 THEN 0
                                                 ELSE fresh])

\* setScalarGrid(other); Array3::set keeps the vector when it is long enough
scalarGridSet(g, other, fresh) ==
    LET sized == withSizeParameters(g, other.resolution, other.gridSpacing,
                                    other.origin)
        fits == Len(other.data.data) <= Len(g.data.data)
    IN withSamplerReset([sized EXCEPT !.data = other.data,
                                      !.buffer = IF fits THEN g.buffer ELSE fresh])

\* swapScalarGrid(other): what this grid becomes
scalarGridSwapped(g, other) ==
    [g EXCEPT !.resolution = other.resolution, !.gridSpacing = other.gridSpacing,
              !.origin = other.origin, !.data = other.data,
              !.buffer = other.buffer, !.linearSampler = other.linearSampler,
              !.sampler = other.sampler]

\* dataPosition()(i, j, k)
dataPosition(g, idx) ==
    LET o == dataOrigin(g)
    IN [c \in 1 .. 3 |-> fAdd(o[c], fMul(g.gridSpacing[c], FromInt(idx[c])))]

\* getBarycentric(x, iLow, iHigh, &i, &f) for iLow = 0
getBarycentric(x, iLow, iHigh) ==
    LET s == x[1] \div x[2]
    IN IF iLow = iHigh THEN [i |-> iLow, f |-> Zero]
       ELSE IF s < iLow THEN [i |-> iLow, f |-> Zero]
       ELSE IF s > iHigh - 1 THEN [i |-> iHigh - 1, f |-> One]
       ELSE [i |-> s, f |-> fSub(x, FromInt(s))]

\* lerp, bilerp and trilerp: (1 - t) * a + t * b, axis by axis
lerp(a, b, t) == fAdd(fMul(fSub(One, t), a), fMul(t, b))
bilerp(f00, f10, f01, f11, tx, ty) == lerp(lerp(f00, f10, tx), lerp(f01, f11, tx), ty)
trilerp(f000, f100, f010, f110, f001, f101, f011, f111, tx, ty, tz) ==
    lerp(bilerp(f000, f100, f010, f110, tx, ty),
         bilerp(f001, f101, f011, f111, tx, ty), tz)

\* the array an accessor reads: the elements at its address
arrayBehind(grids, accessor) ==
    IF \E n \in DOMAIN grids : grids[n].buffer = accessor.buffer /\ accessor.buffer # 0
    THEN (CHOOSE g \in {grids[n] : n \in DOMAIN grids} :
              g.buffer = accessor.buffer).data
    ELSE emptyArray3

\* a variant of the linear sampler that does not clamp the upper neighbours
upperNeighbour_unclamped(i, size) == i + 1

\* std::min(i + 1, iSize - 1)
upperNeighbour(i, size) == minOf(i + 1, size - 1)

\* LinearArraySampler3::operator()(x) on the array a, from the barycentric
\* decompositions on: the indices read and the value returned (no value when
\* an index is outside the array)
interpolated(a, size, normalized, b) ==
    LET i == b[1].i
        j == b[2].i
        k == b[3].i
        ip1 == upperNeighbour(i, size[1])
        jp1 == upperNeighbour(j, size[2])
        kp1 == upperNeighbour(k, size[3])
        reads == {<<p, q, r>> : p \in {i, ip1}, q \in {j, jp1}, r \in {k, kp1}}
        valid == \A idx \in reads : idx \in indicesOf(a.size)
    IN [reads |-> reads,
        valid |-> valid,
        normalizedX |-> normalized,
        value |-> IF valid
                  THEN trilerp(elementAt(a, i, j, k), elementAt(a, ip1, j, k),
                               elementAt(a, i, jp1, k), elementAt(a, ip1, jp1, k),
                               elementAt(a, i, j, kp1), elementAt(a, ip1, j, kp1),
                               elementAt(a, i, jp1, kp1), elementAt(a, ip1, jp1, kp1),
                               b[1].f, b[2].f, b[3].f)
                  ELSE <<>>]

\* LinearArraySampler3::operator()(x): the normalized coordinate, the three
\* barycentric decompositions of it, then the interpolation
linearSample(s, a, x) ==
    LET size == s.accessor.size
    IN CHOOSE result \in UNION {
           {interpolated(array, size, normalized, b) :
                b \in {<<getBarycentric(normalized[1], 0, size[1] - 1),
                         getBarycentric(normalized[2], 0, size[2] - 1),
                         getBarycentric(normalized[3], 0, size[3] - 1)>>}} :
           array \in {a},
           normalized \in {<<fDiv(fSub(x[1], s.origin[1]), s.gridSpacing[1]),
                             fDiv(fSub(x[2], s.origin[2]), s.gridSpacing[2]),
                             fDiv(fSub(x[3], s.origin[3]), s.gridSpacing[3])>>}} : TRUE

\* no sample taken yet
noGridCall ==
    [name |-> "none", index |-> <<>>, thrown |-> FALSE, reads |-> {},
     valid |-> TRUE, normalizedX |-> <<>>, value |-> <<>>]

\* ------------------------------------------------------------------------
\* GridSystemData3: layers and their collections
\* ------------------------------------------------------------------------
\* the four collections
Collections == {"scalar", "vector", "advectableScalar", "advectableVector"}

\* resolutions handed to resize
SystemResolutions == {<<2, 1, 1>>, <<0, 1, 1>>}

\* a layer: the grid object a builder made, told apart by the collection it
\* was made for and the number of layers made for it before
Layer(collection, nth, res) == [made |-> <<collection, nth>>, resolution |-> res]

\* GridSystemData3(): the velocity grid is made first and is the first
\* advectable vector layer
constructedGridSystem ==
    LET vel == Layer("advectableVector", 0, <<0, 0, 0>>)
    IN [resolution |-> <<0, 0, 0>>, velocityIdx |-> 0, velocity |-> vel.made,
        lists |-> [c \in Collections |->
                      IF c = "advectableVector" THEN <<vel>> ELSE <<>>]]

\* a variant of push_back that puts the new layer in front
pushed_front(list, layer) == <<layer>> \o list

\* list.push_back(layer)
pushed(list, layer) == Append(list, layer)

\* add*Data(builder, initialVal): the index returned and the system after it
withLayerAdded(system, collection) ==
    LET attrIdx == Len(system.lists[collection])
        layer == Layer(collection, attrIdx, system.resolution)
    IN [returned |-> attrIdx,
        created |-> layer.made,
        system |-> [system EXCEPT !.lists[collection] = pushed(@, layer)]]

\* resize(resolution, gridSpacing, origin): every layer is resized in place
gridSystemResized(system, res) ==
    [system EXCEPT !.resolution = res,
                   !.lists = [c \in Collections |->
                                 [n \in DOMAIN system.lists[c] |->
                                     [system.lists[c][n] EXCEPT !.resolution = res]]]]

\* numberOf*Data()
numberOfData(system) == [c \in Collections |-> Len(system.lists[c])]

\* *DataAt(idx): the grid object at an index of a collection
dataAt(system, collection, idx) == system.lists[collection][idx + 1].made

\* calls that add a layer
addCall(collection) ==
    IF collection = "scalar" THEN "addScalarData"
    ELSE IF collection = "vector" THEN "addVectorData"
    ELSE IF collection = "advectableScalar" THEN "addAdvectableScalarData"
    ELSE "addAdvectableVectorData"

\* ------------------------------------------------------------------------
\* GridFluidSolver3::extrapolateIntoCollider: the marker arrays
\* ------------------------------------------------------------------------
\* inputs: the grids handed to extrapolateIntoCollider and the collider
\* fields (half spaces: the distance is x[axis] - offset)
TargetKinds == {"scalar", "collocated", "faceCentered"}
TargetResolutions == {<<0, 0, 0>>, <<2, 1, 2>>}
TargetGrids ==
    [kind : TargetKinds, layout : Layouts, resolution : TargetResolutions,
     gridSpacing : {<<<<1, 2>>, One, <<2, 1>>>>},
     origin : GridOrigins]
ColliderFields == [axis : 1 .. 3, offset : {One, <<3, 2>>}]

\* grid->dataSize(), u.size(), v.size(), w.size(): a face-centered grid has
\* one more entry along the axis of the face
faceSizeOf(res, axis) ==
    IF res = <<0, 0, 0>> THEN res
    ELSE [c \in 1 .. 3 |-> IF c = axis THEN res[c] + 1 ELSE res[c]]

\* uOrigin(), vOrigin(), wOrigin(): half a cell along the two other axes
faceOriginOf(gridOrigin, spacing, axis) ==
    [c \in 1 .. 3 |-> IF c = axis THEN gridOrigin[c]
                      ELSE fAdd(gridOrigin[c], fMul(<<1, 2>>, spacing[c]))]

\* the arrays extrapolateIntoCollider works on, in call order, each with its
\* accessor name, its size and the origin of its data positions
targetArrays(grid) ==
    IF grid.kind = "faceCentered"
    THEN [axis \in 1 .. 3 |->
             [name |-> <<"u", "v", "w">>[axis],
              size |-> faceSizeOf(grid.resolution, axis),
              origin |-> faceOriginOf(grid.origin, grid.gridSpacing, axis)]]
    ELSE <<[name |-> "data",
            size |-> dataSizeOf(grid.layout, grid.resolution),
            origin |-> dataOriginOf(grid.layout, grid.origin, grid.gridSpacing)]>>

\* pos(i, j, k) of an array of the grid
dataPositionOf(grid, array, idx) ==
    [c \in 1 .. 3 |->
        fAdd(array.origin[c], fMul(grid.gridSpacing[c], FromInt(idx[c])))]

\* colliderSdf()->sample(x), scaled by its positive denominator
sdfSample(field, x) == RSub(x[field.axis], field.offset)[1]

\* the index (i, j, k) stored at place n of the flat storage
indexAt(size, n) ==
    <<(n - 1) % size[1], ((n - 1) \div size[1]) % size[2],
      (n - 1) \div (size[1] * size[2])>>

\* variant: marks the collider with 1 and the fluid with 0
markerArray_inverted(grid, array, field) ==
    Array3(array.size,
           [n \in 1 .. array.size[1] * array.size[2] * array.size[3] |->
               IF isInsideSdf(sdfSample(field,
                                  dataPositionOf(grid, array, indexAt(array.size, n))))
               THEN 1 ELSE 0])

\* Array3<char> marker(size); marker.parallelForEachIndex(...): every entry
\* is written once, from the distance sampled at its own position
markerArray(grid, array, field) ==
    Array3(array.size,
           [n \in 1 .. array.size[1] * array.size[2] * array.size[3] |->
               IF isInsideSdf(sdfSample(field,
                                  dataPositionOf(grid, array, indexAt(array.size, n))))
               THEN 0 ELSE 1])

\* extrapolateToRegion(input, valid, numberOfIterations, output)
extrapolateToRegion(input, valid, numberOfIterations, output) ==
    [input |-> input, valid |-> valid, numberOfIterations |-> numberOfIterations,
     output |-> output]

\* the extrapolateToRegion calls of one extrapolateIntoCollider(grid)
extrapolateCalls(grid, field) ==
    LET arrays == targetArrays(grid)
    IN [n \in 1 .. Len(arrays) |->
           extrapolateToRegion(arrays[n].name, markerArray(grid, arrays[n], field),
                               depth, arrays[n].name)]

\* ------------------------------------------------------------------------
\* RenderParameters
\* ------------------------------------------------------------------------
\* inputs: parameter names, the types that have an add overload, and the
\* first 32-bit element of a value (the others count up from it)
ParameterNames == {"a", "b"}
ParameterTypes == {"Int", "UInt", "Float", "Float2", "Float3", "Float4", "Matrix"}
FirstElements == {7, 9}

\* the 32-bit elements the overload of a type hands over: int32_t, uint32_t
\* and float hold one, Vector2F two, Vector3F three, Vector4F four and
\* Matrix4x4F sixteen
valueOf(type, first) ==
    LET n == CASE type \in {"Int", "UInt", "Float"} -> 1
               [] type = "Float2" -> 2
               [] type = "Float3" -> 3
               [] type = "Float4" -> 4
               [] type = "Matrix" -> 16
    IN [i \in 1 .. n |-> first + i - 1]

\* sizeWithPadding(size)
sizeWithPadding(size) ==
    IF size = 0 THEN 0 ELSE (((size - 1) \div 16) + 1) * 16

\* what getNumberOfElements gives where assert(false) ends the call
assertFailed == -1

\* getNumberOfElements(type): the element counts the switch can return. UInt
\* has no case and reaches assert(false): the call aborts where assertions
\* are compiled in and returns 0 where they are not
numbersOfElements(type) ==
    CASE type \in {"Int", "Float"} -> {1}
      [] type = "Float2" -> {2}
      [] type = "Float3" -> {3}
      [] type = "Float4" -> {4}
      [] type = "Matrix" -> {16}
      [] OTHER -> {assertFailed, 0}

\* RenderParameters()
emptyRenderParameters ==
    [lastParameterOffset |-> 0, metadata |-> <<>>, names |-> <<>>, buffer |-> <<>>]

\* _metadata.find(name): the place of the entry, 0 for end()
found(params, name) ==
    IF \E n \in 1 .. Len(params.metadata) : params.metadata[n].name = name
    THEN CHOOSE n \in 1 .. Len(params.metadata) : params.metadata[n].name = name
    ELSE 0

\* has(name)
has(params, name) == found(params, name) # 0

\* metadata(name)
metadataOf(params, name) == params.metadata[found(params, name)]

\* _buffer.resize(size): new elements are zero
bufferResized(buffer, size) ==
    [i \in 1 .. size |-> IF i <= Len(buffer) THEN buffer[i] ELSE 0]

\* for (i < numberOfElements) _buffer[offset + i] = value[i]
stored(buffer, offset, value, numberOfElements) ==
    [i \in 1 .. Len(buffer) |->
        IF i > offset /\ i <= offset + numberOfElements THEN value[i - offset]
        ELSE buffer[i]]

\* add(name, defaultValue, type) with the element count the switch returned
withParameterAdded(params, name, value, type, numberOfElements) ==
    LET offset == params.lastParameterOffset
        buffer == bufferResized(params.buffer,
                                sizeWithPadding(offset + numberOfElements))
    IN [lastParameterOffset |-> offset + numberOfElements,
        metadata |-> Append(params.metadata,
                            [name |-> name, offset |-> offset, type |-> type]),
        names |-> Append(params.names, name),
        buffer |-> stored(buffer, offset, value, numberOfElements)]

\* set(name, value) with the element count the switch returned
withValueSet(params, name, value, numberOfElements) ==
    [params EXCEPT !.buffer = stored(params.buffer, metadataOf(params, name).offset,
                                     value, numberOfElements)]

\* buffer(name)[0 .. n-1] lies inside the buffer: reading past its end is not
\* a read of the parameter
readable(params, name, n) ==
    metadataOf(params, name).offset + n <= Len(params.buffer)

\* buffer(name)[0 .. n-1]
readFrom(params, name, n) ==
    [i \in 1 .. n |-> params.buffer[metadataOf(params, name).offset + i]]

noParameterCall ==
    [op |-> "RenderParameters", name |-> "", type |-> "", value |-> <<>>,
     aborted |-> FALSE, before |-> emptyRenderParameters]

\* ------------------------------------------------------------------------
\* PointParallelHashGridSearcher3
\* ------------------------------------------------------------------------
\* inputs: constructor arguments, point positions, query origins and radii
SearcherResolutions == {<<0, 1, 1>>, <<2, 1, 1>>, <<2, 2, 2>>}
SearcherSpacings == {One}
Positions ==
    {<<<<1, 4>>, <<1, 4>>, <<1, 4>>>>, <<<<5, 4>>, <<1, 4>>, <<1, 4>>>>,
     <<<<-3, 4>>, <<3, 4>>, <<1, 4>>>>}
PointArrays == UNION {[0 .. n - 1 -> Positions] : n \in 0 .. MaxPoints}
QueryOrigins == {<<<<1, 4>>, <<1, 4>>, <<1, 4>>>>, <<<<3, 4>>, <<3, 4>>, <<1, 4>>>>}
Radii == {<<1, 2>>, <<2, 1>>}

\* std::vector<size_t>(n, value)
filledVector(n, value) == [i \in 0 .. n - 1 |-> value]

\* the number of buckets
numberOfBuckets(res) == res[1] * res[2] * res[3]

\* PointParallelHashGridSearcher3(resolutionX, resolutionY, resolutionZ,
\* gridSpacing)
constructedSearcher(res, spacing) ==
    LET resolution_ == [c \in 1 .. 3 |-> IF res[c] > 1 THEN res[c] ELSE 1]
    IN [resolution |-> resolution_, gridSpacing |-> spacing,
        points |-> <<>>, keys |-> <<>>, sortedIndices |-> <<>>,
        startIndexTable |-> filledVector(numberOfBuckets(resolution_), kMaxSize),
        endIndexTable |-> filledVector(numberOfBuckets(resolution_), kMaxSize)]

\* std::floor of a quotient
floorOf(q) == q[1] \div q[2]

\* a % b of two signed integers: the remainder has the sign of a
remainderOf(a, b) == IF a >= 0 THEN a % b ELSE -((-a) % b)

\* getBucketIndex(position)
getBucketIndex(s, position) ==
    [c \in 1 .. 3 |-> floorOf(RDiv(position[c], s.gridSpacing))]

\* getHashKeyFromBucketIndex(bucketIndex)
getHashKeyFromBucketIndex(s, bucketIndex) ==
    LET wrappedIndex ==
            [c \in 1 .. 3 |->
                LET r == remainderOf(bucketIndex[c], s.resolution[c])
                IN IF r < 0 THEN r + s.resolution[c] ELSE r]
    IN (wrappedIndex[3] * s.resolution[2] + wrappedIndex[2]) * s.resolution[1]
           + wrappedIndex[1]

\* getHashKeyFromPosition(position)
getHashKeyFromPosition(s, position) ==
    getHashKeyFromBucketIndex(s, getBucketIndex(s, position))

\* getNearbyKeys(position, nearbyKeys): entries 4..7 are moved along x,
\* entries 2, 3, 6, 7 along y and entries 1, 3, 5, 7 along z, towards the
\* half of the bucket the position lies in
getNearbyKeys(s, position) ==
    LET originIndex == getBucketIndex(s, position)
        step == [c \in 1 .. 3 |->
                    IF RLeq(RMul(RAdd(FromInt(originIndex[c]), <<1, 2>>),
                                 s.gridSpacing), position[c])
                    THEN 1 ELSE -1]
        nearbyBucketIndex(i) ==
            <<originIndex[1] + (IF i \div 4 = 1 THEN step[1] ELSE 0),
              originIndex[2] + (IF (i \div 2) % 2 = 1 THEN step[2] ELSE 0),
              originIndex[3] + (IF i % 2 = 1 THEN step[3] ELSE 0)>>
    IN [i \in 0 .. 7 |-> getHashKeyFromBucketIndex(s, nearbyBucketIndex(i))]

\* distanceSquared <= queryRadiusSquared
withinRadius(point, origin, radius) ==
    RLeq(lengthSquared([c \in 1 .. 3 |-> RSub(point[c], origin[c])]),
         RMul(radius, radius))

\* the loop over j of forEachNearbyPoint: the callbacks made for the stored
\* positions j .. end-1
RECURSIVE callbacksIn(_, _, _, _, _)
callbacksIn(s, origin, radius, j, end) ==
    IF j >= end THEN <<>>
    ELSE (IF withinRadius(s.points[j], origin, radius)
          THEN <<[index |-> s.sortedIndices[j], point |-> s.points[j]]>>
          ELSE <<>>)
         \o callbacksIn(s, origin, radius, j + 1, end)

\* the loop over the eight nearby keys of forEachNearbyPoint, from key i on
RECURSIVE callbacksFrom(_, _, _, _, _)
callbacksFrom(s, nearbyKeys, origin, radius, i) ==
    IF i >= 8 THEN <<>>
    ELSE (IF s.startIndexTable[nearbyKeys[i]] = kMaxSize THEN <<>>
          ELSE callbacksIn(s, origin, radius, s.startIndexTable[nearbyKeys[i]],
                           s.endIndexTable[nearbyKeys[i]]))
         \o callbacksFrom(s, nearbyKeys, origin, radius, i + 1)

\* forEachNearbyPoint(origin, radius, callback): the callbacks in order
forEachNearbyPoint(s, origin, radius) ==
    callbacksFrom(s, getNearbyKeys(s, origin), origin, radius, 0)

\* hasNearbyPoint(origin, radius)
hasNearbyPoint(s, origin, radius) ==
    LET nearbyKeys == getNearbyKeys(s, origin)
    IN \E i \in 0 .. 7 :
          /\ s.startIndexTable[nearbyKeys[i]] # kMaxSize
          /\ \E j \in s.startIndexTable[nearbyKeys[i]]
                          .. s.endIndexTable[nearbyKeys[i]] - 1 :
                withinRadius(s.points[j], origin, radius)

\* parallelSort(_sortedIndices, tempKeys[a] < tempKeys[b]): the orders a sort
\* can leave; the order of indices with equal keys is the sort's choice
sortedOrders(tempKeys, n) ==
    {order \in [0 .. n - 1 -> 0 .. n - 1] :
        /\ \A i, j \in 0 .. n - 1 : i # j => order[i] # order[j]
        /\ \A i \in 1 .. n - 1 : ~(tempKeys[order[i]] < tempKeys[order[i - 1]])}

\* variant: the bucket-boundary pass writes at every position
boundaryWrites_unconditional(keys, i) ==
    {[table |-> "start", entry |-> keys[i], value |-> i],
     [table |-> "end", entry |-> keys[i - 1], value |-> i]}

\* iteration i of the bucket-boundary pass: the table entries it writes
boundaryWrites(keys, i) ==
    IF keys[i] > keys[i - 1]
    THEN {[table |-> "start", entry |-> keys[i], value |-> i],
          [table |-> "end", entry |-> keys[i - 1], value |-> i]}
    ELSE {}

\* a table after the writes made to it
tableWritten(table, name, writes) ==
    [entry \in DOMAIN table |->
        IF \E w \in writes : w.table = name /\ w.entry = entry
        THEN (CHOOSE w \in writes : w.table = name /\ w.entry = entry).value
        ELSE table[entry]]

notBuilding ==
    [pc |-> "idle", points |-> <<>>, tempKeys |-> <<>>, pending |-> {},
     writes |-> <<>>]
noQuery == [origin |-> <<>>, radius |-> Zero, callbacks |-> <<>>, has |-> FALSE]

\* ------------------------------------------------------------------------
\* GridFluidSolver3: the pressure solver and the boundary-condition solver
\* ------------------------------------------------------------------------
\* inputs: the pressure solvers handed to setPressureSolver (the null
\* pointer among them) and the flags handed to setClosedDomainBoundaryFlag
nullSolver == "nullptr"
PressureSolvers == {"fractional", "singlePhase"}
ClosedDomainFlags == {{}, {"Left", "Up", "Front"}, Directions(3)}

\* suggestedBoundaryConditionSolver(): a boundary-condition solver as it is
\* constructed, closed in every direction
suggestedBoundaryConditionSolver(solver) ==
    [suggestedBy |-> solver, closedDomainBoundaryFlag |-> Directions(3)]

\* variant: the flag is not handed to the suggested solver
withPressureSolver_flagNotApplied(solver, newSolver) ==
    IF newSolver # nullSolver
    THEN [solver EXCEPT
             !.pressureSolver = newSolver,
             !.boundaryConditionSolver = suggestedBoundaryConditionSolver(newSolver)]
    ELSE [solver EXCEPT !.pressureSolver = newSolver]

\* setPressureSolver(newSolver)
withPressureSolver(solver, newSolver) ==
    IF newSolver # nullSolver
    THEN [solver EXCEPT
             !.pressureSolver = newSolver,
             !.boundaryConditionSolver =
                 [suggestedBoundaryConditionSolver(newSolver) EXCEPT
                     !.closedDomainBoundaryFlag = solver.closedDomainBoundaryFlag]]
    ELSE [solver EXCEPT !.pressureSolver = newSolver]

\* setClosedDomainBoundaryFlag(flag)
withClosedDomainBoundaryFlag(solver, flag) ==
    [solver EXCEPT !.closedDomainBoundaryFlag = flag,
                   !.boundaryConditionSolver.closedDomainBoundaryFlag = flag]

\* GridFluidSolver3(resolution, gridSpacing, gridOrigin): the members as
\* declared, then setPressureSolver with the fractional single-phase solver
constructedFluidSolver ==
    withPressureSolver([closedDomainBoundaryFlag |-> Directions(3),
                        pressureSolver |-> nullSolver,
                        boundaryConditionSolver |->
                            [suggestedBy |-> nullSolver,
                             closedDomainBoundaryFlag |-> {}]],
                       "fractional")

\* ------------------------------------------------------------------------
\* Construction
\* ------------------------------------------------------------------------
\* PhysicsAnimation() and GridFluidSolver3(resolution, gridSpacing, origin);
\* the members whose initializers are in the class declarations take any
\* value their setters accept
Init ==
    /\ currentFrame = [index |-> -1, timeIntervalInSeconds |-> One]
    /\ currentTime = Zero
    /\ isInitialized = FALSE
    /\ isUsingFixedSubTimeSteps = FALSE
    /\ numberOfFixedSubTimeSteps = 1
    /\ gravity \in Gravities
    /\ viscosityCoefficient = Zero
    /\ maxCfl \in CflInputs
    /\ advectionSolver = TRUE
    /\ diffusionSolver = TRUE
    /\ pressureSolver = TRUE
    /\ boundaryConditionSolver = TRUE
    /\ collider = FALSE
    /\ emitter = FALSE
    /\ resolution = InitResolution
    /\ gridSpacing = InitSpacing
    /\ velocity = [c \in CellsOf(resolution) |-> <<Zero, Zero, Zero>>]
    /\ advectableScalarData = 0
    /\ advectableVectorData = <<"faceCentered">>
    /\ pc = "idle"
    /\ frame = currentFrame
    /\ numberOfFrames = 0
    /\ frameI = 0
    /\ remainingTime = Zero
    /\ actualTimeInterval = Zero
    /\ stepI = 0
    /\ updated = FALSE
    /\ advancingUpdates = 0
    /\ advances = <<>>
    /\ initCalls = 0
    /\ stepsBeforeInit = FALSE
    /\ steps = <<>>
    /\ calls = <<>>
    /\ lastVelocityWrite = [by |-> "none", depth |-> 0]
    /\ advections = <<>>
    /\ solves = <<>>
    /\ bndVariant = "none"
    /\ closedDomainBoundaryFlag = {}
    /\ bndCollider = NullCollider
    /\ bndGridSize = <<>>
    /\ marker = <<>>
    /\ faceVelocity = <<>>
    /\ baseVelocity = <<>>
    /\ bndCalls = [op |-> "none", onFilled |-> FALSE, fill |-> 0, written |-> {},
                   colliderUses |-> 0]
    /\ csrM = cleared
    /\ csrB = cleared
    /\ csrRet = cleared
    /\ csrOp = [name |-> "MatrixCsr", dense |-> <<>>, epsilon |-> 0]
    /\ array3 = emptyArray3
    /\ array3Before = emptyArray3
    /\ array3Original = emptyArray3
    /\ array3Op = [name |-> "Array", initVal |-> 0, resizes |-> 0]
    /\ sampler = noSampler
    /\ samplerCall = [name |-> "none", steps |-> <<>>, normalizedX |-> <<>>]
    /\ scalarGrids = [n \in 1 .. 2 |-> constructedScalarGrid("cellCentered")]
    /\ gridCall = noGridCall
    /\ gridSystem = constructedGridSystem
    /\ gridSystemCall = [name |-> "GridSystemData3", collection |-> "none",
                         returned |-> 0, created |-> <<>>,
                         before |-> numberOfData(constructedGridSystem)]
    /\ targetGrid = [kind |-> "scalar", layout |-> "cellCentered",
                     resolution |-> <<0, 0, 0>>, gridSpacing |-> <<One, One, One>>,
                     origin |-> <<Zero, Zero, Zero>>]
    /\ colliderField = [axis |-> 1, offset |-> One]
    /\ extrapolations = <<>>
    /\ renderParameters = emptyRenderParameters
    /\ parameterCall = noParameterCall
    /\ searcher = constructedSearcher(<<1, 1, 1>>, One)
    /\ building = notBuilding
    /\ nearby = noQuery
    /\ fluidSolver = constructedFluidSolver
    /\ setterCalls = <<>>

\* ------------------------------------------------------------------------
\* PhysicsAnimation: setters
\* ------------------------------------------------------------------------
setIsUsingFixedSubTimeSteps ==
    /\ pc = "idle"
    /\ \E isUsing \in BOOLEAN : isUsingFixedSubTimeSteps' = isUsing
    /\ UNCHANGED <<currentFrame, currentTime, isInitialized, numberOfFixedSubTimeSteps,
                   solverVars, gridVars, ctlVars, obsVars>>
    /\ UNCHANGED unitVars

setNumberOfFixedSubTimeSteps ==
    /\ pc = "idle"
    /\ \E numberOfSteps \in FixedCounts : numberOfFixedSubTimeSteps' = numberOfSteps
    /\ UNCHANGED <<currentFrame, currentTime, isInitialized, isUsingFixedSubTimeSteps,
                   solverVars, gridVars, ctlVars, obsVars>>
    /\ UNCHANGED unitVars

setCurrentFrame ==
    /\ pc = "idle"
    /\ \E f \in Frames : currentFrame' = f
    /\ UNCHANGED <<currentTime, isInitialized, isUsingFixedSubTimeSteps,
                   numberOfFixedSubTimeSteps, solverVars, gridVars, ctlVars, obsVars>>
    /\ UNCHANGED unitVars

\* ------------------------------------------------------------------------
\* PhysicsAnimation: update, advanceTimeStep
\* ------------------------------------------------------------------------
\* GridFluidSolver3::onInitialize: updateCollider(0.0), updateEmitter(0.0);
\* yields the velocity fields the emitter may leave
onInitialize == IF emitter THEN written(velocity) ELSE {velocity}

\* variant: a frame equal to the current one is simulated as well
isLaterFrame_orSame(f) == f.index >= currentFrame.index

\* the test of onUpdate
isLaterFrame(f) == f.index > currentFrame.index

\* variant: one frame is advanced whatever the distance
framesToAdvance_one(f) == 1

\* numberOfFrames of onUpdate
framesToAdvance(f) == f.index - currentFrame.index

\* variant: initialize() does not look at _isInitialized
needsInitialize_always == TRUE

\* the test of PhysicsAnimation::initialize
needsInitialize == ~isInitialized

\* PhysicsAnimation::onUpdate up to its for loop, with initialize() inlined
onUpdate(f) ==
    /\ pc = "idle"
    /\ updated' = TRUE
    /\ IF isLaterFrame(f)
       THEN /\ IF needsInitialize
               THEN /\ \E v \in onInitialize :
                         /\ velocity' = v
                         /\ lastVelocityWrite' =
                                IF v # velocity THEN [by |-> "emitter", depth |-> 0]
                                ELSE lastVelocityWrite
                    /\ initCalls' = initCalls + 1
                    /\ isInitialized' = TRUE
               ELSE UNCHANGED <<velocity, lastVelocityWrite, initCalls, isInitialized>>
            /\ frame' = f
            /\ numberOfFrames' = framesToAdvance(f)
            /\ frameI' = 0
            /\ pc' = "onUpdate"
            /\ advancingUpdates' = IF advancingUpdates < ManyUpdates
                                   THEN advancingUpdates + 1 ELSE advancingUpdates
       ELSE UNCHANGED <<velocity, lastVelocityWrite, initCalls, isInitialized,
                        frame, numberOfFrames, frameI, pc, advancingUpdates>>
    /\ UNCHANGED <<currentFrame, currentTime, isUsingFixedSubTimeSteps,
                   numberOfFixedSubTimeSteps, solverVars, resolution, gridSpacing,
                   advectableScalarData, advectableVectorData, remainingTime,
                   actualTimeInterval, stepI, advances, stepsBeforeInit, steps,
                   calls, advections, solves>>
    /\ UNCHANGED unitVars

\* Animation::update
update == \E f \in Frames : onUpdate(f)

\* PhysicsAnimation::advanceSingleFrame
advanceSingleFrame ==
    /\ currentFrame.index < MaxFrameIndex
    /\ onUpdate(nextFrame(currentFrame))

\* the for loop of onUpdate enters advanceTimeStep: the clock is reset and
\* the sub-step loop of the selected mode is set up
advanceTimeStep ==
    /\ pc = "onUpdate"
    /\ frameI < numberOfFrames
    /\ currentTime' = timeInSeconds(currentFrame)
    /\ advances' = Append(advances, frame.timeIntervalInSeconds)
    /\ steps' = <<>>
    /\ IF isUsingFixedSubTimeSteps
       THEN /\ actualTimeInterval' = RDiv(frame.timeIntervalInSeconds,
                                           FromInt(numberOfFixedSubTimeSteps))
            /\ stepI' = 0
            /\ pc' = "fixedLoop"
            /\ UNCHANGED remainingTime
       ELSE /\ remainingTime' = frame.timeIntervalInSeconds
            /\ pc' = "adaptiveLoop"
            /\ UNCHANGED <<actualTimeInterval, stepI>>
    /\ UNCHANGED <<currentFrame, isInitialized, isUsingFixedSubTimeSteps,
                   numberOfFixedSubTimeSteps, solverVars, gridVars, frame,
                   numberOfFrames, frameI, updated, advancingUpdates, initCalls,
                   stepsBeforeInit, calls, lastVelocityWrite, advections, solves>>
    /\ UNCHANGED unitVars

\* the for loop of onUpdate is over: the target frame becomes current
onUpdateReturn ==
    /\ pc = "onUpdate"
    /\ frameI >= numberOfFrames
    /\ currentFrame' = frame
    /\ pc' = "idle"
    /\ numberOfFrames' = 0
    /\ frameI' = 0
    /\ remainingTime' = Zero
    /\ actualTimeInterval' = Zero
    /\ stepI' = 0
    /\ advances' = <<>>
    /\ steps' = <<>>
    /\ calls' = <<>>
    /\ advections' = <<>>
    /\ solves' = <<>>
    /\ UNCHANGED <<currentTime, isInitialized, isUsingFixedSubTimeSteps,
                   numberOfFixedSubTimeSteps, solverVars, gridVars, frame, updated,
                   advancingUpdates, initCalls, stepsBeforeInit, lastVelocityWrite>>
    /\ UNCHANGED unitVars

\* head of the fixed loop: call onAdvanceTimeStep, or leave advanceTimeStep
fixedLoop ==
    /\ pc = "fixedLoop"
    /\ IF stepI < numberOfFixedSubTimeSteps
       THEN /\ steps' = Append(steps, actualTimeInterval)
            /\ stepsBeforeInit' = (stepsBeforeInit \/ initCalls = 0)
            /\ pc' = "onAdvanceTimeStep"
            /\ UNCHANGED frameI
       ELSE /\ frameI' = frameI + 1
            /\ pc' = "onUpdate"
            /\ UNCHANGED <<steps, stepsBeforeInit>>
    /\ UNCHANGED <<animVars, solverVars, gridVars, frame, numberOfFrames,
                   remainingTime, actualTimeInterval, stepI, updated, advancingUpdates,
                   advances, initCalls,
                   calls, lastVelocityWrite, advections, solves>>
    /\ UNCHANGED unitVars

\* variant: the sub-step is a share of the whole interval, not of what remains
subStepSize_ofInterval(numSteps) ==
    RDiv(frame.timeIntervalInSeconds, FromInt(numSteps))

\* actualTimeInterval of the adaptive loop
subStepSize(numSteps) == RDiv(remainingTime, FromInt(numSteps))

\* head of the adaptive loop: size the next sub-step from the remaining time
\* and call onAdvanceTimeStep, or leave advanceTimeStep
adaptiveLoop ==
    /\ pc = "adaptiveLoop"
    /\ IF RLt(kEpsilonD, remainingTime)
       THEN /\ LET numSteps == numberOfSubTimeSteps(remainingTime)
               IN actualTimeInterval' = subStepSize(numSteps)
            /\ steps' = Append(steps, actualTimeInterval')
            /\ stepsBeforeInit' = (stepsBeforeInit \/ initCalls = 0)
            /\ pc' = "onAdvanceTimeStep"
            /\ UNCHANGED frameI
       ELSE /\ frameI' = frameI + 1
            /\ pc' = "onUpdate"
            /\ UNCHANGED <<actualTimeInterval, steps, stepsBeforeInit>>
    /\ UNCHANGED <<animVars, solverVars, gridVars, frame, numberOfFrames,
                   remainingTime, stepI, updated, advancingUpdates,
                   advances, initCalls, calls,
                   lastVelocityWrite, advections, solves>>
    /\ UNCHANGED unitVars

\* variant: the sub-step is not taken off the remaining time
remainingAfter_kept(step) == remainingTime

\* remainingTime -= actualTimeInterval
remainingAfter(step) == RSub(remainingTime, step)

\* onAdvanceTimeStep has returned: the rest of the loop body
subStepDone ==
    /\ pc = "subStepDone"
    /\ currentTime' = RAdd(currentTime, actualTimeInterval)
    /\ IF isUsingFixedSubTimeSteps
       THEN /\ stepI' = stepI + 1
            /\ pc' = "fixedLoop"
            /\ UNCHANGED remainingTime
       ELSE /\ remainingTime' = remainingAfter(actualTimeInterval)
            /\ pc' = "adaptiveLoop"
            /\ UNCHANGED stepI
    /\ UNCHANGED <<currentFrame, isInitialized, isUsingFixedSubTimeSteps,
                   numberOfFixedSubTimeSteps, solverVars, gridVars, frame,
                   numberOfFrames, frameI, actualTimeInterval, obsVars>>
    /\ UNCHANGED unitVars

\* ------------------------------------------------------------------------
\* GridFluidSolver3: the stages of onAdvanceTimeStep
\* ------------------------------------------------------------------------
\* GridFluidSolver3::applyBoundaryCondition: the fields constrainVelocity may
\* leave, the calls it makes and the record of its write
applyBoundaryCondition(v) == IF boundaryConditionSolver THEN written(v) ELSE {v}
constrainCalls == IF boundaryConditionSolver THEN <<"constrainVelocity">> ELSE <<>>
constrainWrite(prev) ==
    IF boundaryConditionSolver THEN [by |-> "constrainVelocity", depth |-> depth]
    ELSE prev

\* onAdvanceTimeStep on a grid without cells: nothing is done
onAdvanceTimeStepEmpty ==
    /\ pc = "onAdvanceTimeStep"
    /\ emptyGrid
    /\ calls' = <<>>
    /\ solves' = <<>>
    /\ pc' = "subStepDone"
    /\ UNCHANGED <<animVars, solverVars, gridVars, frame, numberOfFrames, frameI,
                   remainingTime, actualTimeInterval, stepI, updated, advancingUpdates,
                   advances, initCalls,
                   stepsBeforeInit, steps, lastVelocityWrite, advections>>
    /\ UNCHANGED unitVars

\* variant: the hook runs before the boundary solver is refreshed and applied
beginAdvanceTimeStepCalls_hookFirst ==
    <<"beginAdvanceTimeStep">>
    \o (IF collider THEN <<"collider.update">> ELSE <<>>)
    \o (IF emitter THEN <<"emitter.update">> ELSE <<>>)
    \o <<"onBeginAdvanceTimeStep">>
    \o (IF boundaryConditionSolver THEN <<"updateCollider">> ELSE <<>>)
    \o constrainCalls

\* the calls of beginAdvanceTimeStep, in the order they are made
beginAdvanceTimeStepCalls ==
    <<"beginAdvanceTimeStep">>
    \o (IF collider THEN <<"collider.update">> ELSE <<>>)
    \o (IF emitter THEN <<"emitter.update">> ELSE <<>>)
    \o (IF boundaryConditionSolver THEN <<"updateCollider">> ELSE <<>>)
    \o constrainCalls
    \o <<"onBeginAdvanceTimeStep">>

beginAdvanceTimeStep ==
    /\ pc = "onAdvanceTimeStep"
    /\ ~emptyGrid
    /\ \E v1 \in (IF emitter THEN written(velocity) ELSE {velocity}) :
       \E v2 \in applyBoundaryCondition(v1) :
          /\ velocity' = v2
          /\ lastVelocityWrite' =
                 constrainWrite(IF v1 # velocity THEN [by |-> "emitter", depth |-> 0]
                                ELSE lastVelocityWrite)
    /\ calls' = beginAdvanceTimeStepCalls
    /\ solves' = <<>>
    /\ pc' = "computeExternalForces"
    /\ UNCHANGED <<animVars, solverVars, resolution, gridSpacing,
                   advectableScalarData, advectableVectorData, frame, numberOfFrames,
                   frameI, remainingTime, actualTimeInterval, stepI, updated,
                   advancingUpdates, advances, initCalls, stepsBeforeInit, steps,
                   advections>>
    /\ UNCHANGED unitVars

\* GridFluidSolver3::computeGravity on the cell-center values: every face of
\* an axis gets the same increment, and so does every cell center
addGravity(v, dt) ==
    [c \in DOMAIN v |->
        [a \in 1 .. 3 |->
            IF RLt(kEpsilonD, RAbs(gravity[a]))
            THEN RAdd(v[c][a], RMul(dt, gravity[a]))
            ELSE v[c][a]]]

\* variant: gravity is added and the boundary condition is not re-applied
computeExternalForces_unconstrained ==
    /\ pc = "computeExternalForces"
    /\ IF RLt(kEpsilonD, lengthSquared(gravity))
       THEN /\ velocity' = addGravity(velocity, actualTimeInterval)
            /\ lastVelocityWrite' = [by |-> "computeGravity", depth |-> 0]
            /\ calls' = calls \o <<"computeExternalForces", "computeGravity">>
       ELSE /\ calls' = Append(calls, "computeExternalForces")
            /\ UNCHANGED <<velocity, lastVelocityWrite>>
    /\ pc' = "computeViscosity"
    /\ UNCHANGED <<animVars, solverVars, resolution, gridSpacing,
                   advectableScalarData, advectableVectorData, frame, numberOfFrames,
                   frameI, remainingTime, actualTimeInterval, stepI, updated,
                   advancingUpdates, advances, initCalls, stepsBeforeInit, steps,
                   advections, solves>>
    /\ UNCHANGED unitVars

\* computeExternalForces = computeGravity
computeExternalForces ==
    /\ pc = "computeExternalForces"
    /\ IF RLt(kEpsilonD, lengthSquared(gravity))
       THEN /\ \E v \in applyBoundaryCondition(addGravity(velocity, actualTimeInterval)) :
                  velocity' = v
            /\ lastVelocityWrite' = constrainWrite([by |-> "computeGravity", depth |-> 0])
            /\ calls' = calls \o <<"computeExternalForces", "computeGravity">>
                               \o constrainCalls
       ELSE /\ calls' = Append(calls, "computeExternalForces")
            /\ UNCHANGED <<velocity, lastVelocityWrite>>
    /\ pc' = "computeViscosity"
    /\ UNCHANGED <<animVars, solverVars, resolution, gridSpacing,
                   advectableScalarData, advectableVectorData, frame, numberOfFrames,
                   frameI, remainingTime, actualTimeInterval, stepI, updated,
                   advancingUpdates, advances, initCalls, stepsBeforeInit, steps,
                   advections, solves>>
    /\ UNCHANGED unitVars

\* the grids a solver call names: a layer of the grid system
\* itself ("live") or the copy clone() made of it ("clone")
velocityLayer == <<"vector", velocityIndex>>
live(layer) == <<"live", layer[1], layer[2]>>
clone(layer) == <<"clone", layer[1], layer[2]>>
noGrid == <<"none", "none", 0>>

\* grid0 = grid->clone(): the copy made of a layer
cloned(layer) ==
    [op |-> "clone", input |-> live(layer), flow |-> noGrid, output |-> clone(layer)]

\* solver->solve(input, ..., output, ...) of the diffusion or pressure solver
solve(solver, input, output) ==
    [op |-> solver, input |-> input, flow |-> noGrid, output |-> output]

\* variant: the solver reads and writes the velocity layer itself
solveVelocity_inPlace(solver) ==
    <<solve(solver, live(velocityLayer), live(velocityLayer))>>

\* vel0 = vel->clone(); solver->solve(*vel0, ..., vel.get(), ...)
solveVelocity(solver) ==
    <<cloned(velocityLayer),
      solve(solver, clone(velocityLayer), live(velocityLayer))>>

\* applyBoundaryCondition(): constrainVelocity(velocity().get(), depth)
constrainSteps ==
    IF boundaryConditionSolver
    THEN <<[op |-> "constrainVelocity", input |-> noGrid, flow |-> noGrid,
            output |-> live(velocityLayer)]>>
    ELSE <<>>

computeViscosity ==
    /\ pc = "computeViscosity"
    /\ IF diffusionSolver /\ RLt(kEpsilonD, viscosityCoefficient)
       THEN /\ \E v1 \in solved :
               \E v2 \in applyBoundaryCondition(v1) : velocity' = v2
            /\ lastVelocityWrite' =
                   constrainWrite([by |-> "diffusionSolver.solve", depth |-> 0])
            /\ calls' = calls \o <<"computeViscosity", "diffusionSolver.solve">>
                               \o constrainCalls
            /\ solves' = solves \o solveVelocity("diffusionSolver.solve") \o constrainSteps
       ELSE /\ calls' = Append(calls, "computeViscosity")
            /\ solves' = solves
            /\ UNCHANGED <<velocity, lastVelocityWrite>>
    /\ pc' = "computePressure"
    /\ UNCHANGED <<animVars, solverVars, resolution, gridSpacing,
                   advectableScalarData, advectableVectorData, frame, numberOfFrames,
                   frameI, remainingTime, actualTimeInterval, stepI, updated,
                   advancingUpdates, advances, initCalls, stepsBeforeInit, steps,
                   advections>>
    /\ UNCHANGED unitVars

\* variant: the pressure solver is used without the null test
computePressure_unguarded ==
    /\ pc = "computePressure"
    /\ \E v1 \in solved :
       \E v2 \in applyBoundaryCondition(v1) : velocity' = v2
    /\ lastVelocityWrite' =
           constrainWrite([by |-> "pressureSolver.solve", depth |-> 0])
    /\ calls' = calls \o <<"computePressure", "pressureSolver.solve">>
                       \o constrainCalls
    /\ solves' = solves \o solveVelocity("pressureSolver.solve") \o constrainSteps
    /\ pc' = "computeAdvection"
    /\ UNCHANGED <<animVars, solverVars, resolution, gridSpacing,
                   advectableScalarData, advectableVectorData, frame, numberOfFrames,
                   frameI, remainingTime, actualTimeInterval, stepI, updated,
                   advancingUpdates, advances, initCalls, stepsBeforeInit, steps,
                   advections>>
    /\ UNCHANGED unitVars

computePressure ==
    /\ pc = "computePressure"
    /\ IF pressureSolver
       THEN /\ \E v1 \in solved :
               \E v2 \in applyBoundaryCondition(v1) : velocity' = v2
            /\ lastVelocityWrite' =
                   constrainWrite([by |-> "pressureSolver.solve", depth |-> 0])
            /\ calls' = calls \o <<"computePressure", "pressureSolver.solve">>
                               \o constrainCalls
            /\ solves' = solves \o solveVelocity("pressureSolver.solve") \o constrainSteps
       ELSE /\ calls' = Append(calls, "computePressure")
            /\ solves' = solves
            /\ UNCHANGED <<velocity, lastVelocityWrite>>
    /\ pc' = "computeAdvection"
    /\ UNCHANGED <<animVars, solverVars, resolution, gridSpacing,
                   advectableScalarData, advectableVectorData, frame, numberOfFrames,
                   frameI, remainingTime, actualTimeInterval, stepI, updated,
                   advancingUpdates, advances, initCalls, stepsBeforeInit, steps,
                   advections>>
    /\ UNCHANGED unitVars

\* the calls of the two layer loops of computeAdvection
RECURSIVE scalarAdvections(_)
scalarAdvections(n) ==
    IF n = 0 THEN <<>>
    ELSE scalarAdvections(n - 1) \o <<"advect.scalar", "extrapolateIntoCollider">>

RECURSIVE vectorAdvections(_, _)
vectorAdvections(layers, i) ==
    IF i >= Len(layers) THEN <<>>
    ELSE (IF i = velocityIndex THEN <<>>
          ELSE <<"advect." \o layers[i + 1], "extrapolateIntoCollider">>)
         \o vectorAdvections(layers, i + 1)

\* _advectionSolver->advect(input, flow, dt, output, colliderSdf)
advect(input, flow, output) ==
    [op |-> "advect", input |-> input, flow |-> flow, output |-> output]

\* extrapolateIntoCollider(grid)
extrapolateIntoCollider(grid) ==
    [op |-> "extrapolateIntoCollider", input |-> noGrid, flow |-> noGrid,
     output |-> grid]

\* body of the two layer loops: grid0 = grid->clone(), advect grid0 through
\* vel into grid, extrapolate grid
advectLayer(layer) ==
    <<advect(clone(layer), live(velocityLayer), live(layer)),
      extrapolateIntoCollider(live(layer))>>

\* loop over the advectable scalar layers 0 .. n-1
RECURSIVE advectScalarData(_)
advectScalarData(n) ==
    IF n = 0 THEN <<>>
    ELSE advectScalarData(n - 1) \o advectLayer(<<"scalar", n - 1>>)

\* variant: the loop over the vector layers does not skip the velocity layer
RECURSIVE advectVectorData_all(_, _)
advectVectorData_all(layers, i) ==
    IF i >= Len(layers) THEN <<>>
    ELSE advectLayer(<<"vector", i>>) \o advectVectorData_all(layers, i + 1)

\* loop over the advectable vector layers i .. n-1, velocity layer skipped
RECURSIVE advectVectorData(_, _)
advectVectorData(layers, i) ==
    IF i >= Len(layers) THEN <<>>
    ELSE (IF i = velocityIndex THEN <<>> ELSE advectLayer(<<"vector", i>>))
         \o advectVectorData(layers, i + 1)

\* vel0 = vel->clone(); advect(*vel0, *vel0, dt, vel.get(), ...)
advectVelocity ==
    <<advect(clone(velocityLayer), clone(velocityLayer), live(velocityLayer))>>

\* the calls of computeAdvection, each advect call preceded by the clone
\* statement in front of it: grid0 = grid->clone() / vel0 = vel->clone() of
\* the grid passed as output
RECURSIVE withClones(_)
withClones(advectCalls) ==
    IF advectCalls = <<>> THEN <<>>
    ELSE (IF Head(advectCalls).op = "advect"
          THEN <<cloned(<<Head(advectCalls).output[2], Head(advectCalls).output[3]>>)>>
          ELSE <<>>)
         \o <<Head(advectCalls)>> \o withClones(Tail(advectCalls))

computeAdvection ==
    /\ pc = "computeAdvection"
    /\ IF advectionSolver
       THEN /\ \E v1 \in solved :
               \E v2 \in applyBoundaryCondition(v1) : velocity' = v2
            /\ lastVelocityWrite' =
                   constrainWrite([by |-> "advect.velocity", depth |-> 0])
            /\ calls' = calls \o <<"computeAdvection">>
                               \o scalarAdvections(advectableScalarData)
                               \o vectorAdvections(advectableVectorData, 0)
                               \o <<"advect.velocity">>
                               \o constrainCalls
            /\ advections' = advectScalarData(advectableScalarData)
                               \o advectVectorData(advectableVectorData, 0)
                               \o advectVelocity
            /\ solves' = solves \o withClones(advections') \o constrainSteps
       ELSE /\ calls' = Append(calls, "computeAdvection")
            /\ advections' = <<>>
            /\ solves' = solves
            /\ UNCHANGED <<velocity, lastVelocityWrite>>
    /\ pc' = "endAdvanceTimeStep"
    /\ UNCHANGED <<animVars, solverVars, resolution, gridSpacing,
                   advectableScalarData, advectableVectorData, frame, numberOfFrames,
                   frameI, remainingTime, actualTimeInterval, stepI, updated,
                   advancingUpdates, advances, initCalls, stepsBeforeInit, steps>>
    /\ UNCHANGED unitVars

endAdvanceTimeStep ==
    /\ pc = "endAdvanceTimeStep"
    /\ calls' = calls \o <<"endAdvanceTimeStep", "onEndAdvanceTimeStep">>
    /\ pc' = "subStepDone"
    /\ UNCHANGED <<animVars, solverVars, gridVars, frame, numberOfFrames, frameI,
                   remainingTime, actualTimeInterval, stepI, updated, advancingUpdates,
                   advances, initCalls,
                   stepsBeforeInit, steps, lastVelocityWrite, advections, solves>>
    /\ UNCHANGED unitVars

\* ------------------------------------------------------------------------
\* GridFluidSolver3: configuration
\* ------------------------------------------------------------------------
setGravity ==
    /\ pc = "idle"
    /\ \E newGravity \in Gravities : gravity' = newGravity
    /\ UNCHANGED <<animVars, viscosityCoefficient, maxCfl, advectionSolver,
                   diffusionSolver, pressureSolver, boundaryConditionSolver, collider,
                   emitter, gridVars, ctlVars, obsVars>>
    /\ UNCHANGED unitVars

setViscosityCoefficient ==
    /\ pc = "idle"
    /\ \E newValue \in Viscosities : viscosityCoefficient' = RMax(newValue, Zero)
    /\ UNCHANGED <<animVars, gravity, maxCfl, advectionSolver, diffusionSolver,
                   pressureSolver, boundaryConditionSolver, collider, emitter,
                   gridVars, ctlVars, obsVars>>
    /\ UNCHANGED unitVars

setMaxCfl ==
    /\ pc = "idle"
    /\ \E newCfl \in CflInputs : maxCfl' = RMax(newCfl, kEpsilonD)
    /\ UNCHANGED <<animVars, gravity, viscosityCoefficient, advectionSolver,
                   diffusionSolver, pressureSolver, boundaryConditionSolver, collider,
                   emitter, gridVars, ctlVars, obsVars>>
    /\ UNCHANGED unitVars

setAdvectionSolver ==
    /\ pc = "idle"
    /\ \E newSolver \in BOOLEAN : advectionSolver' = newSolver
    /\ UNCHANGED <<animVars, gravity, viscosityCoefficient, maxCfl, diffusionSolver,
                   pressureSolver, boundaryConditionSolver, collider, emitter,
                   gridVars, ctlVars, obsVars>>
    /\ UNCHANGED unitVars

setDiffusionSolver ==
    /\ pc = "idle"
    /\ \E newSolver \in BOOLEAN : diffusionSolver' = newSolver
    /\ UNCHANGED <<animVars, gravity, viscosityCoefficient, maxCfl, advectionSolver,
                   pressureSolver, boundaryConditionSolver, collider, emitter,
                   gridVars, ctlVars, obsVars>>
    /\ UNCHANGED unitVars

\* a non-null pressure solver brings its suggested boundary-condition solver
setPressureSolver ==
    /\ pc = "idle"
    /\ \E newSolver \in BOOLEAN :
          /\ pressureSolver' = newSolver
          /\ boundaryConditionSolver' =
                 IF newSolver THEN TRUE ELSE boundaryConditionSolver
    /\ UNCHANGED <<animVars, gravity, viscosityCoefficient, maxCfl, advectionSolver,
                   diffusionSolver, collider, emitter, gridVars, ctlVars, obsVars>>
    /\ UNCHANGED unitVars

setCollider ==
    /\ pc = "idle"
    /\ \E newCollider \in BOOLEAN : collider' = newCollider
    /\ UNCHANGED <<animVars, gravity, viscosityCoefficient, maxCfl, advectionSolver,
                   diffusionSolver, pressureSolver, boundaryConditionSolver, emitter,
                   gridVars, ctlVars, obsVars>>
    /\ UNCHANGED unitVars

setEmitter ==
    /\ pc = "idle"
    /\ \E newEmitter \in BOOLEAN : emitter' = newEmitter
    /\ UNCHANGED <<animVars, gravity, viscosityCoefficient, maxCfl, advectionSolver,
                   diffusionSolver, pressureSolver, boundaryConditionSolver, collider,
                   gridVars, ctlVars, obsVars>>
    /\ UNCHANGED unitVars

\* GridFluidSolver3::resizeGrid -> GridSystemData3::resize: every layer takes
\* the new shape; the velocity grid keeps or loses samples
resizeGrid ==
    /\ pc = "idle"
    /\ \E r \in Resizes :
        LET newSize == r[1]
            newGridSpacing == r[2]
        IN
          /\ resolution' = newSize
          /\ gridSpacing' = newGridSpacing
          /\ velocity' = [c \in CellsOf(newSize) |->
                             IF c \in DOMAIN velocity THEN velocity[c]
                             ELSE <<Zero, Zero, Zero>>]
    /\ UNCHANGED <<animVars, solverVars, advectableScalarData, advectableVectorData,
                   ctlVars, obsVars>>
    /\ UNCHANGED unitVars

\* GridSystemData3::addAdvectableScalarData
addAdvectableScalarData ==
    /\ pc = "idle"
    /\ advectableScalarData < MaxLayers
    /\ advectableScalarData' = advectableScalarData + 1
    /\ UNCHANGED <<animVars, solverVars, resolution, gridSpacing, velocity,
                   advectableVectorData, ctlVars, obsVars>>
    /\ UNCHANGED unitVars

\* GridSystemData3::addAdvectableVectorData
addAdvectableVectorData ==
    /\ pc = "idle"
    /\ Len(advectableVectorData) < 1 + MaxLayers
    /\ \E layout \in {"collocated", "faceCentered"} :
          advectableVectorData' = Append(advectableVectorData, layout)
    /\ UNCHANGED <<animVars, solverVars, resolution, gridSpacing, velocity,
                   advectableScalarData, ctlVars, obsVars>>
    /\ UNCHANGED unitVars

\* ------------------------------------------------------------------------
\* Boundary-condition solvers: operations
\* ------------------------------------------------------------------------
\* GridBlockedBoundaryConditionSolver2(), ...: closed on every side, no
\* collider, an empty grid
newBoundaryConditionSolver ==
    /\ bndVariant = "none"
    /\ \E variant \in Variants :
          /\ bndVariant' = variant
          /\ closedDomainBoundaryFlag' = Directions(dimensionOf(variant))
          /\ bndGridSize' = [a \in 1 .. dimensionOf(variant) |-> 0]
    /\ UNCHANGED <<bndCollider, marker, faceVelocity, baseVelocity, bndCalls, bndOthers>>

\* the solver is set up for a grid before that grid is constrained: a grid
\* that has been constrained is constrained again or replaced by a new one
setClosedDomainBoundaryFlag ==
    /\ bndVariant # "none"
    /\ bndCalls.op # "constrainVelocity"
    /\ \E flag \in FlagInputs(dimensionOf(bndVariant)) :
          closedDomainBoundaryFlag' = flag
    /\ UNCHANGED <<bndVariant, bndCollider, bndGridSize, marker, faceVelocity,
                   baseVelocity, bndCalls, bndOthers>>

\* GridBlockedBoundaryConditionSolver2::onColliderUpdated: after the base
\* class has sampled the collider SDF, every cell is marked
onColliderUpdated(newCollider, gridSize) ==
    [c \in Cells(gridSize) |->
        IF isInsideSdf(colliderSdf(newCollider, c)) THEN kCollider ELSE kFluid]

\* GridBoundaryConditionSolver::updateCollider
updateCollider ==
    /\ bndVariant # "none"
    /\ bndCalls.op # "constrainVelocity"
    /\ \E newCollider \in Colliders, gridSize \in GridSizes(dimensionOf(bndVariant)) :
          /\ bndCollider' = newCollider
          /\ bndGridSize' = gridSize
          /\ marker' = IF isBlocked(bndVariant)
                       THEN onColliderUpdated(newCollider, gridSize)
                       ELSE marker
    /\ UNCHANGED <<bndVariant, closedDomainBoundaryFlag, faceVelocity, baseVelocity,
                   bndCalls, bndOthers>>

\* FaceCenteredGrid(gridSize, ...) and fill(value)
fill ==
    /\ bndVariant # "none"
    /\ \E gridSize \in GridSizes(dimensionOf(bndVariant)), value \in FillValues :
          /\ faceVelocity' = [f \in Faces(gridSize) |-> value]
          /\ bndCalls' = [op |-> "fill", onFilled |-> FALSE, fill |-> value,
                          written |-> {}, colliderUses |-> 0]
    /\ baseVelocity' = <<>>
    /\ UNCHANGED <<bndVariant, closedDomainBoundaryFlag, bndCollider, bndGridSize,
                   marker, bndOthers>>

\* the face lies on a side of the domain that the flag closes
onClosedBoundary(face) ==
    LET axis == face[1]
        c == face[2]
    IN \/ c[axis] = 0 /\ directionOf(axis, FALSE) \in closedDomainBoundaryFlag
       \/ c[axis] = bndGridSize[axis]
            /\ directionOf(axis, TRUE) \in closedDomainBoundaryFlag

\* a cell on either side of the face is inside the collider
touchesCollider(face) ==
    \E cell \in {face[2], shifted(face[2], face[1], -1)} :
        /\ cell \in Cells(bndGridSize)
        /\ isInsideSdf(colliderSdf(bndCollider, cell))

\* GridFractionalBoundaryConditionSolver::constrainVelocity: faces next to the
\* collider are projected to some blend (here: all such faces of some of the
\* axes), then the faces on closed sides of the domain are set to 0; every
\* other face is left alone
fractionalConstrainVelocity(vel) ==
    {[f \in DOMAIN vel |->
         IF onClosedBoundary(f) THEN 0
         ELSE IF f[1] \in axes /\ touchesCollider(f) THEN blend
         ELSE vel[f]] :
       axes \in SUBSET (1 .. Len(bndGridSize)), blend \in Blends}

\* variant: the face on the far side of the cell is taken at the cell's own index
highFace_own(c, axis) == c

\* u(i + 1, j), v(i, j + 1)
highFace(c, axis) == shifted(c, axis, 1)

\* the velocityAt calls of the marker pass, as <<face, cell>> pairs: for a
\* collider cell, the face towards each fluid neighbour
markerPass ==
    UNION {
        {<<(<<axis, c>>), c>> :
            c \in {c \in DOMAIN marker :
                      /\ marker[c] = kCollider
                      /\ c[axis] > 0
                      /\ marker[shifted(c, axis, -1)] = kFluid}}
        \cup
        {<<(<<axis, highFace(c, axis)>>), c>> :
            c \in {c \in DOMAIN marker :
                      /\ marker[c] = kCollider
                      /\ c[axis] < bndGridSize[axis] - 1
                      /\ marker[shifted(c, axis, 1)] = kFluid}} :
        axis \in 1 .. Len(bndGridSize)}

markerFaces == {w[1] : w \in markerPass}

\* variant: the base-class projection is not called
blockedConstrainVelocity_withoutBase(vel) ==
    {[base |-> vel,
      final |-> [f \in DOMAIN vel |->
                    IF f \in markerFaces
                    THEN velocityAt(bndCollider, facePosition(f))[f[1]]
                    ELSE vel[f]]]}

\* GridBlockedBoundaryConditionSolver::constrainVelocity: the base class, then
\* the no-flux pass over the marker
blockedConstrainVelocity(vel) ==
    {[base |-> b,
      final |-> [f \in DOMAIN b |->
                    IF f \in markerFaces
                    THEN velocityAt(bndCollider, facePosition(f))[f[1]]
                    ELSE b[f]]] :
       b \in fractionalConstrainVelocity(vel)}

constrainVelocity ==
    /\ bndVariant # "none"
    /\ DOMAIN faceVelocity = Faces(bndGridSize)
    /\ IF isBlocked(bndVariant)
       THEN /\ \E r \in blockedConstrainVelocity(faceVelocity) :
                  /\ baseVelocity' = r.base
                  /\ faceVelocity' = r.final
            /\ bndCalls' = [op |-> "constrainVelocity",
                            onFilled |-> bndCalls.op = "fill" \/ bndCalls.onFilled,
                            fill |-> bndCalls.fill,
                            written |-> markerFaces,
                            colliderUses |-> Cardinality(markerPass)]
       ELSE /\ \E b \in fractionalConstrainVelocity(faceVelocity) :
                  /\ baseVelocity' = b
                  /\ faceVelocity' = b
            /\ bndCalls' = [op |-> "constrainVelocity",
                            onFilled |-> bndCalls.op = "fill" \/ bndCalls.onFilled,
                            fill |-> bndCalls.fill,
                            written |-> {},
                            colliderUses |-> 0]
    /\ UNCHANGED <<bndVariant, closedDomainBoundaryFlag, bndCollider, bndGridSize,
                   marker, bndOthers>>

\* ------------------------------------------------------------------------
\* MatrixCsr: operations
\* ------------------------------------------------------------------------
noArguments(name) == [name |-> name, dense |-> <<>>, epsilon |-> 0]

\* rows handed to addRow: <<value, column>> pairs in any order
RowInputs == {<<>>, <<(<<1, 1>>)>>, <<(<<-2, 1>>), (<<1, 0>>)>>, <<(<<0, 0>>)>>}
\* indices handed to addElement and setElement
Indices == 0 .. 1

\* MatrixCsr(lst, epsilon) and MatrixCsr(expression, epsilon): compress on
\* empty vectors; what an earlier add / sub returned is dropped
newMatrixCsr ==
    /\ \E D \in DenseMatrices, epsilon \in Epsilons :
          csrM' = compressList(D, epsilon)
    /\ csrOp' = noArguments("MatrixCsr")
    /\ csrRet' = cleared
    /\ UNCHANGED <<csrB, csrOthers>>

clear ==
    /\ csrM.defined
    /\ csrM' = cleared
    /\ csrOp' = noArguments("clear")
    /\ UNCHANGED <<csrB, csrRet, csrOthers>>

\* compress(initializer list)
compress_list ==
    /\ csrM.defined
    /\ \E D \in DenseMatrices, epsilon \in Epsilons :
          csrM' = compressList(D, epsilon)
    /\ csrOp' = noArguments("compress(list)")
    /\ UNCHANGED <<csrB, csrRet, csrOthers>>

\* compress(matrix expression), on a matrix that has been compressed from an
\* expression at most once before
compress_expression ==
    /\ csrM.defined
    /\ Len(csrM.rowPointers) <= csrM.size[1] + 1
    /\ \E D \in DenseMatrices, epsilon \in Epsilons :
          /\ csrM' = compressExpression(csrM, D, epsilon)
          /\ csrOp' = [name |-> "compress(expression)", dense |-> D,
                       epsilon |-> epsilon]
    /\ UNCHANGED <<csrB, csrRet, csrOthers>>

addRow ==
    /\ csrM.defined
    /\ csrM.size[1] < 2
    /\ \E pairs \in RowInputs : csrM' = withRow(csrM, pairs)
    /\ csrOp' = noArguments("addRow")
    /\ UNCHANGED <<csrB, csrRet, csrOthers>>

addElement ==
    /\ csrM.defined
    /\ Len(csrM.nonZeros) < 3
    /\ \E i \in Indices, j \in Indices, value \in Values :
          csrM' = withElement(csrM, i, j, value)
    /\ csrOp' = noArguments("addElement")
    /\ UNCHANGED <<csrB, csrRet, csrOthers>>

setElement ==
    /\ csrM.defined
    /\ Len(csrM.nonZeros) < 3
    /\ \E i \in Indices, j \in Indices, value \in Values :
          csrM' = withElementSet(csrM, i, j, value)
    /\ csrOp' = noArguments("setElement")
    /\ UNCHANGED <<csrB, csrRet, csrOthers>>

\* the argument of add / sub: a matrix built by the constructor
newOperand ==
    /\ \E D \in DenseMatrices, epsilon \in Epsilons : csrB' = compressList(D, epsilon)
    /\ csrOp' = noArguments("MatrixCsr")
    /\ csrRet' = cleared
    /\ UNCHANGED <<csrM, csrOthers>>

\* MatrixCsr::add(const MatrixCsr&)
add ==
    /\ csrM.defined
    /\ csrM.size = csrB.size
    /\ \E ret \in binaryOp(csrM, csrB, "plus") : csrRet' = ret
    /\ csrOp' = noArguments("add")
    /\ UNCHANGED <<csrM, csrB, csrOthers>>

\* MatrixCsr::sub(const MatrixCsr&)
sub ==
    /\ csrM.defined
    /\ csrM.size = csrB.size
    /\ \E ret \in binaryOp(csrM, csrB, "minus") : csrRet' = ret
    /\ csrOp' = noArguments("sub")
    /\ UNCHANGED <<csrM, csrB, csrOthers>>

\* ------------------------------------------------------------------------
\* Array<T, 3>: operations
\* ------------------------------------------------------------------------
\* Array(size, initVal): resize of the empty array
newArray3 ==
    /\ \E size \in Size3s, initVal \in Elements :
          /\ array3' = resized(emptyArray3, size, initVal)
          /\ array3Op' = [name |-> "Array", initVal |-> initVal, resizes |-> 0]
    /\ array3Before' = emptyArray3
    /\ array3Original' = emptyArray3
    /\ UNCHANGED arrOthers

\* operator()(i, j, k) = value
assignElement ==
    /\ \E idx \in indicesOf(array3.size), value \in Elements :
          /\ elementAt(array3, idx[1], idx[2], idx[3]) # value
          /\ array3' = withElementAt(array3, idx[1], idx[2], idx[3], value)
          /\ array3Op' = [name |-> "operator()", initVal |-> value, resizes |-> 0]
    /\ array3Before' = emptyArray3
    /\ array3Original' = emptyArray3
    /\ UNCHANGED arrOthers

\* resize(size, initVal)
resize ==
    /\ \E size \in Size3s, initVal \in InitVals :
          /\ array3' = resized(array3, size, initVal)
          /\ array3Op' = [name |-> "resize", initVal |-> initVal,
                          resizes |-> IF array3Op.resizes = 0 THEN 1 ELSE 2]
    /\ array3Before' = array3
    /\ array3Original' = array3Before
    /\ UNCHANGED arrOthers

\* ------------------------------------------------------------------------
\* Array samplers: operations
\* ------------------------------------------------------------------------
\* NearestArraySampler / LinearArraySampler / CubicArraySampler
\* (accessor, gridSpacing, gridOrigin)
newSampler ==
    /\ \E class \in SamplerClasses, spacing \in Spacings, gridOrigin \in Origins :
          /\ sampler' = constructed(class, spacing, gridOrigin)
          /\ samplerCall' = [name |-> "constructor",
                             steps |-> constructorSteps(class, spacing),
                             normalizedX |-> <<>>]
    /\ UNCHANGED smpOthers

\* operator()(x); a failed assertion ends the program
sample ==
    /\ sampler.class # "none"
    /\ \A n \in DOMAIN samplerCall.steps : samplerCall.steps[n] # asserted(FALSE)
    /\ \E x \in Points :
          samplerCall' = [name |-> "operator()",
                          steps |-> samplingSteps(sampler, x),
                          normalizedX |-> IF spacingAccepted(sampler.gridSpacing)
                                          THEN normalizedX(sampler, x) ELSE <<>>]
    /\ UNCHANGED <<sampler, smpOthers>>

\* ------------------------------------------------------------------------
\* ScalarGrid3: operations
\* ------------------------------------------------------------------------
\* two grids of one concrete class, default-constructed
newScalarGrid ==
    /\ \E layout \in Layouts :
          scalarGrids' = [n \in 1 .. 2 |-> constructedScalarGrid(layout)]
    /\ gridCall' = noGridCall
    /\ UNCHANGED sgOthers

\* resize(resolution, gridSpacing, origin, initialValue)
resizeScalarGrid ==
    /\ \E res \in GridResolutions(scalarGrids[1].layout), spacing \in GridSpacings,
          gridOrigin \in GridOrigins, initialValue \in InitialValues :
          scalarGrids' = [scalarGrids EXCEPT ![1] =
              scalarGridResized(@, res, spacing, gridOrigin, initialValue,
                                freshBuffer(scalarGrids))]
    /\ gridCall' = [noGridCall EXCEPT !.name = "resize"]
    /\ UNCHANGED sgOthers

\* the same on the second grid
resizeOtherScalarGrid ==
    /\ \E res \in GridResolutions(scalarGrids[2].layout), spacing \in GridSpacings,
          gridOrigin \in GridOrigins, initialValue \in InitialValues :
          scalarGrids' = [scalarGrids EXCEPT ![2] =
              scalarGridResized(@, res, spacing, gridOrigin, initialValue,
                                freshBuffer(scalarGrids))]
    /\ gridCall' = [noGridCall EXCEPT !.name = "resize(other)"]
    /\ UNCHANGED sgOthers

\* clear(): resize(Size3(), gridSpacing(), origin(), 0.0)
clearScalarGrid ==
    /\ scalarGrids' = [scalarGrids EXCEPT ![1] =
           scalarGridResized(@, <<0, 0, 0>>, @.gridSpacing, @.origin, Zero,
                             freshBuffer(scalarGrids))]
    /\ gridCall' = [noGridCall EXCEPT !.name = "clear"]
    /\ UNCHANGED sgOthers

\* setScalarGrid(other)
setScalarGrid ==
    /\ scalarGrids' = [scalarGrids EXCEPT ![1] =
           scalarGridSet(@, scalarGrids[2], freshBuffer(scalarGrids))]
    /\ gridCall' = [noGridCall EXCEPT !.name = "setScalarGrid"]
    /\ UNCHANGED sgOthers

\* swapScalarGrid(other)
swapScalarGrid ==
    /\ scalarGrids' = [n \in 1 .. 2 |->
                          scalarGridSwapped(scalarGrids[n], scalarGrids[3 - n])]
    /\ gridCall' = [noGridCall EXCEPT !.name = "swapScalarGrid"]
    /\ UNCHANGED sgOthers

\* operator()(i, j, k) = value on the first grid
assignData ==
    /\ \E idx \in indicesOf(scalarGrids[1].data.size), value \in Samples :
          /\ valueAt(scalarGrids[1].data, idx) # value
          /\ scalarGrids' = [scalarGrids EXCEPT ![1].data =
                 withElementAt(@, idx[1], idx[2], idx[3], value)]
    /\ gridCall' = [noGridCall EXCEPT !.name = "operator()"]
    /\ UNCHANGED sgOthers

\* sample(dataPosition()(i, j, k)) on the first grid; calling an empty
\* std::function throws
sampleAtDataPoint ==
    /\ \E idx \in indicesOf(scalarGrids[1].data.size) :
          LET g == scalarGrids[1]
              s == g.sampler.sampler
          IN IF ~g.sampler.set
             THEN gridCall' = [noGridCall EXCEPT !.name = "sample", !.index = idx,
                                                 !.thrown = TRUE]
             ELSE \E result \in {linearSample(s, arrayBehind(scalarGrids, s.accessor),
                                                dataPosition(g, idx))} :
                      gridCall' = [name |-> "sample", index |-> idx, thrown |-> FALSE,
                                   reads |-> result.reads, valid |-> result.valid,
                                   normalizedX |-> result.normalizedX,
                                   value |-> result.value]
    /\ UNCHANGED <<scalarGrids, sgOthers>>

\* ------------------------------------------------------------------------
\* GridSystemData3: operations
\* ------------------------------------------------------------------------
\* one of the four add calls; layersBelow keeps the lists within the bound
addLayer(collection) ==
    LET layersBelow == IF collection = "advectableVector" THEN 1 + MaxLayers
                       ELSE MaxLayers
        added == withLayerAdded(gridSystem, collection)
    IN /\ Len(gridSystem.lists[collection]) < layersBelow
       /\ gridSystem' = added.system
       /\ gridSystemCall' = [name |-> addCall(collection), collection |-> collection,
                             returned |-> added.returned, created |-> added.created,
                             before |-> numberOfData(gridSystem)]
       /\ UNCHANGED gsOthers

grids_addScalarData == addLayer("scalar")
grids_addVectorData == addLayer("vector")
grids_addAdvectableScalarData == addLayer("advectableScalar")
grids_addAdvectableVectorData == addLayer("advectableVector")

\* resize(resolution, gridSpacing, origin)
grids_resize ==
    /\ \E res \in SystemResolutions :
          /\ res # gridSystem.resolution
          /\ gridSystem' = gridSystemResized(gridSystem, res)
    /\ gridSystemCall' = [name |-> "resize", collection |-> "none", returned |-> 0,
                          created |-> <<>>, before |-> numberOfData(gridSystem)]
    /\ UNCHANGED gsOthers

\* ------------------------------------------------------------------------
\* GridFluidSolver3::extrapolateIntoCollider on a grid of its own
\* ------------------------------------------------------------------------
\* another grid is handed in
newTargetGrid ==
    /\ \E grid \in TargetGrids : targetGrid' = grid
    /\ UNCHANGED <<colliderField, extrapolations>>
    /\ UNCHANGED extOthers

\* the boundary solver has another collider field
newColliderField ==
    /\ \E field \in ColliderFields : colliderField' = field
    /\ UNCHANGED <<targetGrid, extrapolations>>
    /\ UNCHANGED extOthers

\* extrapolateIntoCollider(grid)
extrapolateIntoColliderCall ==
    /\ extrapolations' = extrapolateCalls(targetGrid, colliderField)
    /\ UNCHANGED <<targetGrid, colliderField>>
    /\ UNCHANGED extOthers

\* ------------------------------------------------------------------------
\* RenderParameters: add and set
\* ------------------------------------------------------------------------
\* add(name, defaultValue) with a name that is not in the set yet
params_add ==
    /\ ~parameterCall.aborted
    /\ \E name \in ParameterNames, type \in ParameterTypes, first \in FirstElements :
          /\ ~has(renderParameters, name)
          /\ \E numberOfElements \in numbersOfElements(type) :
                LET call == [op |-> "add", name |-> name, type |-> type,
                             value |-> valueOf(type, first), aborted |-> FALSE,
                             before |-> renderParameters]
                IN IF numberOfElements = assertFailed
                   THEN /\ parameterCall' = [call EXCEPT !.aborted = TRUE]
                        /\ renderParameters' =
                               [renderParameters EXCEPT
                                   !.metadata = Append(@, [name |-> name,
                                       offset |-> renderParameters.lastParameterOffset,
                                       type |-> type]),
                                   !.names = Append(@, name)]
                   ELSE /\ parameterCall' = call
                        /\ renderParameters' =
                               withParameterAdded(renderParameters, name,
                                                  valueOf(type, first), type,
                                                  numberOfElements)
    /\ UNCHANGED rpOthers

\* set(name, value) with the name of a parameter and a value of its type
params_set ==
    /\ ~parameterCall.aborted
    /\ \E name \in ParameterNames, first \in FirstElements :
          /\ has(renderParameters, name)
          /\ LET type == metadataOf(renderParameters, name).type
             IN \E numberOfElements \in numbersOfElements(type) :
                   LET call == [op |-> "set", name |-> name, type |-> type,
                                value |-> valueOf(type, first), aborted |-> FALSE,
                                before |-> renderParameters]
                   IN IF numberOfElements = assertFailed
                      THEN /\ parameterCall' = [call EXCEPT !.aborted = TRUE]
                           /\ UNCHANGED renderParameters
                      ELSE /\ parameterCall' = call
                           /\ renderParameters' =
                                  withValueSet(renderParameters, name,
                                               valueOf(type, first), numberOfElements)
    /\ UNCHANGED rpOthers

\* a new, empty parameter set
params_new ==
    /\ renderParameters' = emptyRenderParameters
    /\ parameterCall' = noParameterCall
    /\ UNCHANGED rpOthers

\* ------------------------------------------------------------------------
\* PointParallelHashGridSearcher3: build and the queries
\* ------------------------------------------------------------------------
newSearcher ==
    /\ building.pc \in {"idle", "done"}
    /\ \E res \in SearcherResolutions, spacing \in SearcherSpacings :
          searcher' = constructedSearcher(res, spacing)
    /\ building' = notBuilding
    /\ nearby' = noQuery
    /\ UNCHANGED hgOthers

\* build(points) up to the first parallel loop: the vectors are cleared and
\* resized, the tables filled with kMaxSize; nothing more without points
build_begin ==
    /\ building.pc \in {"idle", "done"}
    /\ \E points \in PointArrays :
          LET numberOfPoints == Cardinality(DOMAIN points)
          IN /\ searcher' =
                    [searcher EXCEPT
                        !.points = filledVector(numberOfPoints,
                                                <<Zero, Zero, Zero>>),
                        !.keys = filledVector(numberOfPoints, 0),
                        !.sortedIndices = filledVector(numberOfPoints, 0),
                        !.startIndexTable =
                            filledVector(numberOfBuckets(searcher.resolution),
                                         kMaxSize),
                        !.endIndexTable =
                            filledVector(numberOfBuckets(searcher.resolution),
                                         kMaxSize)]
             /\ building' =
                    [pc |-> IF numberOfPoints = 0 THEN "done" ELSE "initialize",
                     points |-> points,
                     tempKeys |-> filledVector(numberOfPoints, 0),
                     pending |-> 0 .. numberOfPoints - 1,
                     writes |-> <<>>]
    /\ nearby' = noQuery
    /\ UNCHANGED hgOthers

\* one iteration of the first parallel loop, in any order
build_initialize ==
    /\ building.pc = "initialize"
    /\ \E i \in building.pending :
          /\ searcher' = [searcher EXCEPT !.sortedIndices[i] = i,
                                          !.points[i] = building.points[i]]
          /\ building' =
                 [building EXCEPT
                     !.tempKeys[i] =
                         getHashKeyFromPosition(searcher, building.points[i]),
                     !.pending = @ \ {i},
                     !.pc = IF building.pending = {i} THEN "sort" ELSE @]
    /\ UNCHANGED nearby
    /\ UNCHANGED hgOthers

\* parallelSort of the indices by key
build_sort ==
    /\ building.pc = "sort"
    /\ \E order \in sortedOrders(building.tempKeys,
                                 Cardinality(DOMAIN building.points)) :
          searcher' = [searcher EXCEPT !.sortedIndices = order]
    /\ building' = [building EXCEPT !.pc = "reorder",
                                    !.pending = DOMAIN building.points]
    /\ UNCHANGED nearby
    /\ UNCHANGED hgOthers

\* one iteration of the re-ordering loop, in any order; after the last one
\* the first start entry and the last end entry are written
build_reorder ==
    /\ building.pc = "reorder"
    /\ \E i \in building.pending :
          LET numberOfPoints == Cardinality(DOMAIN building.points)
              s == [searcher EXCEPT
                       !.points[i] = building.points[searcher.sortedIndices[i]],
                       !.keys[i] = building.tempKeys[searcher.sortedIndices[i]]]
          IN IF building.pending = {i}
             THEN /\ searcher' =
                         [s EXCEPT
                             !.startIndexTable[s.keys[0]] = 0,
                             !.endIndexTable[s.keys[numberOfPoints - 1]] =
                                 numberOfPoints]
                  /\ building' =
                         [building EXCEPT
                             !.pending = 1 .. numberOfPoints - 1,
                             !.writes = [n \in 1 .. numberOfPoints - 1 |-> {}],
                             !.pc = IF numberOfPoints = 1 THEN "done"
                                    ELSE "boundaries"]
             ELSE /\ searcher' = s
                  /\ building' = [building EXCEPT !.pending = @ \ {i}]
    /\ UNCHANGED nearby
    /\ UNCHANGED hgOthers

\* one iteration of the bucket-boundary pass, in any order
build_boundaries ==
    /\ building.pc = "boundaries"
    /\ \E i \in building.pending :
          LET writes == boundaryWrites(searcher.keys, i)
          IN /\ searcher' =
                    [searcher EXCEPT
                        !.startIndexTable = tableWritten(@, "start", writes),
                        !.endIndexTable = tableWritten(@, "end", writes)]
             /\ building' =
                    [building EXCEPT
                        !.writes[i] = {[table |-> w.table, entry |-> w.entry] :
                                          w \in writes},
                        !.pending = @ \ {i},
                        !.pc = IF building.pending = {i} THEN "done" ELSE @]
    /\ UNCHANGED nearby
    /\ UNCHANGED hgOthers

\* forEachNearbyPoint and hasNearbyPoint with the same origin and radius
queryNearby ==
    /\ building.pc \in {"idle", "done"}
    /\ \E origin \in QueryOrigins, radius \in Radii :
          nearby' = [origin |-> origin, radius |-> radius,
                     callbacks |-> forEachNearbyPoint(searcher, origin, radius),
                     has |-> hasNearbyPoint(searcher, origin, radius)]
    /\ UNCHANGED <<searcher, building>>
    /\ UNCHANGED hgOthers

\* ------------------------------------------------------------------------
\* GridFluidSolver3: setPressureSolver and setClosedDomainBoundaryFlag
\* ------------------------------------------------------------------------
solver_new ==
    /\ fluidSolver' = constructedFluidSolver
    /\ setterCalls' = <<>>
    /\ UNCHANGED wrOthers

solver_setPressureSolver ==
    /\ Len(setterCalls) < MaxSetterCalls
    /\ \E newSolver \in PressureSolvers \cup {nullSolver} :
          /\ fluidSolver' = withPressureSolver(fluidSolver, newSolver)
          /\ setterCalls' = Append(setterCalls, [op |-> "setPressureSolver",
                                                   newSolver |-> newSolver,
                                                   flag |-> {}])
    /\ UNCHANGED wrOthers

solver_setClosedDomainBoundaryFlag ==
    /\ Len(setterCalls) < MaxSetterCalls
    /\ \E flag \in ClosedDomainFlags :
          /\ fluidSolver' = withClosedDomainBoundaryFlag(fluidSolver, flag)
          /\ setterCalls' = Append(setterCalls,
                                    [op |-> "setClosedDomainBoundaryFlag",
                                     newSolver |-> nullSolver, flag |-> flag])
    /\ UNCHANGED wrOthers

\* ------------------------------------------------------------------------
\* Specifications
\* ------------------------------------------------------------------------
\* the steps of a running update call
Run ==
    \/ advanceTimeStep
    \/ onUpdateReturn
    \/ adaptiveLoop
    \/ subStepDone
    \/ beginAdvanceTimeStep
    \/ computeExternalForces
    \/ computeViscosity
    \/ computePressure
    \/ computeAdvection
    \/ endAdvanceTimeStep

\* the time integrator driven by any caller
Next ==
    \/ setIsUsingFixedSubTimeSteps
    \/ setNumberOfFixedSubTimeSteps
    \/ setCurrentFrame
    \/ setGravity
    \/ setMaxCfl
    \/ update
    \/ fixedLoop
    \/ Run

Spec == Init /\ [][Next]_vars

\* the solver configured in any way and advanced frame by frame
NextSolver ==
    \/ setGravity
    \/ setViscosityCoefficient
    \/ setMaxCfl
    \/ setAdvectionSolver
    \/ setDiffusionSolver
    \/ setPressureSolver
    \/ setCollider
    \/ setEmitter
    \/ resizeGrid
    \/ advanceSingleFrame
    \/ onAdvanceTimeStepEmpty
    \/ Run

SpecSolver == Init /\ [][NextSolver]_vars

\* the solver with layers added to its grid system and advanced frame by frame
NextLayers ==
    \/ addAdvectableScalarData
    \/ addAdvectableVectorData
    \/ setAdvectionSolver
    \/ advanceSingleFrame
    \/ Run

SpecLayers == Init /\ [][NextLayers]_vars

\* the solver with any set of stage solvers and any advectable layers,
\* advanced frame by frame
NextStages ==
    \/ addAdvectableScalarData
    \/ addAdvectableVectorData
    \/ setViscosityCoefficient
    \/ setAdvectionSolver
    \/ setDiffusionSolver
    \/ setPressureSolver
    \/ advanceSingleFrame
    \/ Run

SpecStages == Init /\ [][NextStages]_vars

\* a boundary-condition solver of any class, configured and applied to grids
NextBoundary ==
    \/ newBoundaryConditionSolver
    \/ setClosedDomainBoundaryFlag
    \/ updateCollider
    \/ fill
    \/ constrainVelocity

\* one sparse matrix, built and edited in any order
NextCsr ==
    \/ clear
    \/ compress_list
    \/ compress_expression
    \/ addRow
    \/ addElement
    \/ setElement

\* two sparse matrices built by the constructor, added and subtracted
NextCsrArithmetic ==
    \/ newMatrixCsr
    \/ newOperand
    \/ add
    \/ sub

\* the objects exercised on their own sit next to one fluid solver
InitUnits == Init /\ gravity = <<Zero, Zero, Zero>> /\ maxCfl = <<2, 1>>

SpecBoundary == InitUnits /\ [][NextBoundary]_vars
SpecCsr == InitUnits /\ [][NextCsr]_vars
SpecCsrArithmetic == InitUnits /\ [][NextCsrArithmetic]_vars

\* one array, built, written and resized in any order
NextArray3 ==
    \/ newArray3
    \/ assignElement
    \/ resize

\* a sampler of any class, built on any spacing and evaluated
NextSampler ==
    \/ newSampler
    \/ sample

SpecArray3 == InitUnits /\ [][NextArray3]_vars
SpecSampler == InitUnits /\ [][NextSampler]_vars

\* one scalar grid, resized, written and sampled at its data points
NextScalarGridSampling ==
    \/ newScalarGrid
    \/ resizeScalarGrid
    \/ assignData
    \/ sampleAtDataPoint

\* two scalar grids, resized, cleared, copied and swapped
NextScalarGrid ==
    \/ newScalarGrid
    \/ resizeScalarGrid
    \/ resizeOtherScalarGrid
    \/ clearScalarGrid
    \/ setScalarGrid
    \/ swapScalarGrid

SpecScalarGridSampling == InitUnits /\ [][NextScalarGridSampling]_vars
SpecScalarGrid == InitUnits /\ [][NextScalarGrid]_vars

\* a grid system to which layers are added and which is resized, in any order
NextGridSystem ==
    \/ grids_addScalarData
    \/ grids_addVectorData
    \/ grids_addAdvectableScalarData
    \/ grids_addAdvectableVectorData
    \/ grids_resize

SpecGridSystem == InitUnits /\ [][NextGridSystem]_vars

\* extrapolateIntoCollider on any grid, with any collider field and any CFL
\* limit
InitExtrapolation == Init /\ gravity = <<Zero, Zero, Zero>>
NextExtrapolation ==
    \/ newTargetGrid
    \/ newColliderField
    \/ setMaxCfl
    \/ extrapolateIntoColliderCall

SpecExtrapolation == InitExtrapolation /\ [][NextExtrapolation]_vars

\* the adaptive integrator as a running program: a call of update, once
\* made, is executed statement by statement until it returns
NextAdaptive ==
    \/ setGravity
    \/ setMaxCfl
    \/ update
    \/ Run

\* the statements a running update can be at, and the step from one of them
\* to the next: update runs to completion on the calling thread, so a call
\* that has been entered always takes its next statement
ProgramPoints ==
    {"idle", "onUpdate", "fixedLoop", "adaptiveLoop", "onAdvanceTimeStep",
     "computeExternalForces", "computeViscosity", "computePressure",
     "computeAdvection", "endAdvanceTimeStep", "subStepDone"}
nextStatement == pc # "idle" /\ pc' \in ProgramPoints \ {pc}

SpecAdaptive == Init /\ [][NextAdaptive]_vars /\ WF_pc(nextStatement)

\* a parameter set that is filled and updated
NextRenderParameters ==
    \/ params_new
    \/ params_add
    \/ params_set

SpecRenderParameters == InitUnits /\ [][NextRenderParameters]_vars

\* a searcher that is constructed, built and queried
NextHashGrid ==
    \/ newSearcher
    \/ build_begin
    \/ build_initialize
    \/ build_sort
    \/ build_reorder
    \/ build_boundaries
    \/ queryNearby

SpecHashGrid == InitUnits /\ [][NextHashGrid]_vars

\* a fluid solver whose pressure solver and domain flag are set in any order
NextSolverSetters ==
    \/ solver_new
    \/ solver_setPressureSolver
    \/ solver_setClosedDomainBoundaryFlag

SpecSolverSetters == InitUnits /\ [][NextSolverSetters]_vars

\* ------------------------------------------------------------------------
\* Properties of the time integrator
\* ------------------------------------------------------------------------
RECURSIVE sumOf(_)
sumOf(q) == IF q = <<>> THEN Zero ELSE RAdd(q[1], sumOf(Tail(q)))

\* an advanceTimeStep call of the running update has just returned
advanceTimeStepReturned == pc = "onUpdate" /\ frameI >= 1

\* C1: in adaptive mode, when advanceTimeStep(T) returns, the sub-step sizes
\* given to onAdvanceTimeStep add up to T less a remainder of at most
\* kEpsilonD, and the clock is ahead of the frame start by exactly that sum
C1_AdaptiveConsumesInterval ==
    (advanceTimeStepReturned /\ ~isUsingFixedSubTimeSteps) =>
        LET T == frame.timeIntervalInSeconds
            rest == RSub(T, sumOf(steps))
        IN /\ RLeq(Zero, rest)
           /\ RLeq(rest, kEpsilonD)
           /\ rest = remainingTime
           /\ currentTime = RAdd(timeInSeconds(currentFrame), sumOf(steps))

\* an adaptive advanceTimeStep returned after more than one sub-step
C1_Witness ==
    /\ advanceTimeStepReturned
    /\ ~isUsingFixedSubTimeSteps
    /\ Len(steps) >= 2
    /\ sumOf(steps) = frame.timeIntervalInSeconds

\* the adaptive loop has sized a sub-step and is entering onAdvanceTimeStep
subStepSized == pc = "onAdvanceTimeStep" /\ ~isUsingFixedSubTimeSteps

\* C2 as claimed: every adaptive sub-step size dt has cfl(dt) <= maxCfl for
\* the velocity field and gravity at the start of the sub-step
C2_SubStepCflWithinMax ==
    subStepSized => RLeq(cfl(actualTimeInterval), maxCfl)

\* C2 as amended: every adaptive sub-step size dt has
\* maxVel * dt / minGridSize <= maxCfl, where maxVel is the largest component
\* of velocity + remaining * gravity that cfl(remaining) finds; with zero
\* gravity this is cfl(dt) <= maxCfl
C2_SubStepWithinEstimate ==
    subStepSized =>
        /\ RLeq(RDiv(RMul(maxVel(remainingTime), actualTimeInterval), minGridSize),
                maxCfl)
        /\ gravity = <<Zero, Zero, Zero>> => RLeq(cfl(actualTimeInterval), maxCfl)

\* a remaining time was split into several sub-steps
C2_Witness ==
    /\ subStepSized
    /\ RLt(actualTimeInterval, remainingTime)
    /\ RLt(maxCfl, cfl(remainingTime))

\* the largest absolute value of a component of velocity + dt * gravity
maxAbsVel(dt) ==
    MaxOf({RAbs(RAdd(velocity[c][a], RMul(dt, gravity[a]))) :
              c \in DOMAIN velocity, a \in 1 .. 3} \cup {Zero})

\* C3: cfl(dt) is the largest absolute component of cell-center velocity +
\* dt * gravity, times dt, over the smallest grid spacing
C3_CflUsesAbsoluteValue ==
    subStepSized =>
        cfl(remainingTime) =
            RDiv(RMul(maxAbsVel(remainingTime), remainingTime),
                 min3(gridSpacing[1], gridSpacing[2], gridSpacing[3]))

\* C4: in fixed mode with N sub-steps, when advanceTimeStep(T) returns
\* onAdvanceTimeStep has been called N times with T/N each and the clock is
\* ahead of the frame start by T
C4_FixedConsumesInterval ==
    (advanceTimeStepReturned /\ isUsingFixedSubTimeSteps) =>
        LET T == frame.timeIntervalInSeconds
        IN /\ Len(steps) = numberOfFixedSubTimeSteps
           /\ \A i \in 1 .. Len(steps) :
                 steps[i] = RDiv(T, FromInt(numberOfFixedSubTimeSteps))
           /\ currentTime = RAdd(timeInSeconds(currentFrame), T)

\* C5: an update call whose frame is not later than the current frame
\* changes nothing: no initialization, no advanceTimeStep, no sub-step, same
\* current frame and clock
C5_StaleUpdateIsNoOp ==
    [][(\E f \in Frames : f.index <= currentFrame.index /\ onUpdate(f)) =>
          UNCHANGED <<animVars, solverVars, gridVars, ctlVars, advancingUpdates,
                      advances, initCalls, stepsBeforeInit, steps, calls,
                      lastVelocityWrite>>]_vars

\* an update call has been made and none has advanced the simulation
C5_Witness ==
    /\ updated
    /\ pc = "idle"
    /\ advancingUpdates = 0
    /\ currentTime = Zero

\* C6: when update(frame) with frame.index = currentFrame.index + n, n >= 1,
\* returns, it has called advanceTimeStep(frame.timeIntervalInSeconds) n
\* times and the current frame is frame
C6_UpdateAdvancesEachFrame ==
    [][onUpdateReturn =>
          /\ Len(advances) = frame.index - currentFrame.index
          /\ Len(advances) >= 1
          /\ \A i \in 1 .. Len(advances) : advances[i] = frame.timeIntervalInSeconds
          /\ currentFrame' = frame]_vars

\* an update call that caught up two frames is about to return
C6_Witness ==
    /\ pc = "onUpdate"
    /\ numberOfFrames = 2
    /\ frameI = numberOfFrames
    /\ Len(advances) = 2

\* C7: when update(frame) returns after advancing frames of the interval the
\* current frame had, the clock is at index * interval of the new current
\* frame, up to kEpsilonD (stated for the adaptive mode, where every
\* advanceTimeStep consumes its interval)
C7_ClockMatchesFrame ==
    [][(onUpdateReturn
          /\ ~isUsingFixedSubTimeSteps
          /\ frame.timeIntervalInSeconds = currentFrame.timeIntervalInSeconds) =>
          RLeq(RAbs(RSub(currentTime', timeInSeconds(currentFrame'))), kEpsilonD)]_vars

\* C8 as claimed: onInitialize runs during the first update call, never
\* again, and before any onAdvanceTimeStep
C8_InitOnFirstUpdate ==
    /\ updated => initCalls = 1
    /\ ~stepsBeforeInit

\* C8 as amended: onInitialize runs during the first update call whose frame
\* is later than the current frame, never again, and before any
\* onAdvanceTimeStep
C8_InitOnFirstAdvancingUpdate ==
    /\ initCalls = (IF advancingUpdates >= 1 THEN 1 ELSE 0)
    /\ ~stepsBeforeInit

\* a second advancing update call is running its sub-steps
C8_Witness ==
    /\ advancingUpdates = 2
    /\ initCalls = 1
    /\ steps # <<>>

\* ------------------------------------------------------------------------
\* Properties of the sub-step pipeline
\* ------------------------------------------------------------------------
StageOrder == <<"beginAdvanceTimeStep", "computeExternalForces", "computeViscosity",
                "computePressure", "computeAdvection", "endAdvanceTimeStep">>
BeginOrder == <<"collider.update", "emitter.update", "updateCollider",
                "constrainVelocity", "onBeginAdvanceTimeStep">>

rangeOf(q) == {q[i] : i \in 1 .. Len(q)}
positionIn(q, c) == CHOOSE i \in 1 .. Len(q) : q[i] = c
isStage(c) == c \in rangeOf(StageOrder)
stagesRun == SelectSeq(calls, isStage)

\* stages that are over at the current position of the sub-step
stagesDue ==
    IF pc = "subStepDone" THEN Len(StageOrder) ELSE positionIn(StageOrder, pc) - 1

\* a sub-step on a grid with cells is past its begin stage
inSubStep ==
    /\ ~emptyGrid
    /\ pc \in {"computeExternalForces", "computeViscosity", "computePressure",
               "computeAdvection", "endAdvanceTimeStep", "subStepDone"}

\* the calls of the begin stage: those up to the second stage
beginCalls ==
    LET n == IF "computeExternalForces" \in rangeOf(calls)
             THEN positionIn(calls, "computeExternalForces") - 1
             ELSE Len(calls)
    IN SubSeq(calls, 2, n)

\* the stage a call of the log was made in
stageAt(i) ==
    LET before == {j \in 1 .. i : isStage(calls[j])}
    IN calls[CHOOSE j \in before : \A k \in before : k <= j]

\* the stage each solver call and hook belongs to
stageOf(c) ==
    CASE c = "computeGravity" -> "computeExternalForces"
      [] c = "diffusionSolver.solve" -> "computeViscosity"
      [] c = "pressureSolver.solve" -> "computePressure"
      [] c \in {"advect.scalar", "advect.collocated", "advect.faceCentered",
                "advect.velocity", "extrapolateIntoCollider"} -> "computeAdvection"
      [] c = "onEndAdvanceTimeStep" -> "endAdvanceTimeStep"
      [] c \in rangeOf(BeginOrder) \ {"constrainVelocity"} -> "beginAdvanceTimeStep"
      [] OTHER -> "any"

\* C9: on a grid with cells the stages of a sub-step run once each in the
\* order begin, external forces, viscosity, pressure, advection, end, each
\* one over before the next starts and every call made within its own stage;
\* the begin stage updates the collider, updates the emitter, rebuilds the
\* boundary solver's cache, applies the constraints and calls the hook, in
\* that order
C9_StagesInOrder ==
    inSubStep =>
        /\ stagesRun = SubSeq(StageOrder, 1, stagesDue)
        /\ \A i \in 1 .. Len(calls) :
              stageOf(calls[i]) # "any" => stageAt(i) = stageOf(calls[i])
        /\ \A i, j \in 1 .. Len(beginCalls) :
              /\ beginCalls[i] \in rangeOf(BeginOrder)
              /\ i < j => positionIn(BeginOrder, beginCalls[i])
                             < positionIn(BeginOrder, beginCalls[j])
        /\ {"updateCollider", "constrainVelocity", "onBeginAdvanceTimeStep"}
              \subseteq rangeOf(beginCalls)
        /\ collider <=> "collider.update" \in rangeOf(beginCalls)
        /\ emitter <=> "emitter.update" \in rangeOf(beginCalls)

\* a sub-step with collider, emitter and every solver at work is over
C9_Witness ==
    /\ inSubStep
    /\ pc = "subStepDone"
    /\ collider
    /\ emitter
    /\ {"computeGravity", "diffusionSolver.solve", "pressureSolver.solve",
        "advect.velocity"} \subseteq rangeOf(calls)

velocityWriters == {"computeGravity", "diffusionSolver.solve", "pressureSolver.solve",
                    "advect.velocity"}

\* C10: every write of gravity, diffusion, pressure or velocity advection to
\* the velocity grid is followed at once by constrainVelocity, and at the
\* start of viscosity, pressure, advection and end-substep the last write to
\* the velocity grid is constrainVelocity with depth ceil(maxCfl)
C10_ConstraintAfterEveryWrite ==
    inSubStep =>
        /\ \A i \in 1 .. Len(calls) :
              calls[i] \in velocityWriters =>
                  i < Len(calls) /\ calls[i + 1] = "constrainVelocity"
        /\ pc # "computeExternalForces" =>
              /\ lastVelocityWrite.by = "constrainVelocity"
              /\ RLeq(maxCfl, FromInt(lastVelocityWrite.depth))
              /\ RLt(FromInt(lastVelocityWrite.depth - 1), maxCfl)

\* the end hook is about to run after all four stages wrote the velocity
C10_Witness ==
    /\ ~emptyGrid
    /\ pc = "endAdvanceTimeStep"
    /\ velocityWriters \subseteq rangeOf(calls)
    /\ lastVelocityWrite.depth = 2


\* ------------------------------------------------------------------------
\* computeAdvection
\* ------------------------------------------------------------------------
\* the advectable layers other than the velocity layer
otherLayers ==
    ({<<"scalar", i>> : i \in 0 .. advectableScalarData - 1}
        \cup {<<"vector", i>> : i \in 0 .. Len(advectableVectorData) - 1})
    \ {velocityLayer}

\* positions of the advect calls whose destination is the layer itself
advectsInto(layer) ==
    {k \in 1 .. Len(advections) :
        advections[k].op = "advect" /\ advections[k].output = live(layer)}

advectionDone == pc = "endAdvanceTimeStep" /\ advectionSolver

\* C11: with an advection solver set, computeAdvection advects every
\* advectable scalar layer and every advectable vector layer other than the
\* velocity layer exactly once, from a clone of the layer, through the live
\* velocity grid that no advect call has written yet, and extrapolates the
\* layer into the collider in the very next call; the velocity layer is
\* advected exactly once, in the last call, with one clone of itself as input
\* and as flow field and the live velocity grid as destination
C11_AdvectionOfLayers ==
    advectionDone =>
        /\ \A layer \in otherLayers :
              \E k \in 1 .. Len(advections) - 1 :
                  /\ advectsInto(layer) = {k}
                  /\ advections[k].input = clone(layer)
                  /\ advections[k].flow = live(velocityLayer)
                  /\ \A j \in 1 .. k : j \notin advectsInto(velocityLayer)
                  /\ advections[k + 1] = extrapolateIntoCollider(live(layer))
        /\ advectsInto(velocityLayer) = {Len(advections)}
        /\ advections[Len(advections)].input = clone(velocityLayer)
        /\ advections[Len(advections)].flow = clone(velocityLayer)

\* computeAdvection has run over two scalar layers and two vector layers of
\* both layouts besides the velocity
C11_Witness ==
    /\ advectionDone
    /\ advectableScalarData = 2
    /\ advectableVectorData = <<"faceCentered", "collocated", "faceCentered">>
    /\ Len(advections) = 9

\* ------------------------------------------------------------------------
\* Degenerate configurations
\* ------------------------------------------------------------------------
someAxisIsZero == \E a \in 1 .. 3 : resolution[a] = 0

\* C12: when an axis of the resolution is 0, onAdvanceTimeStep makes no call
\* at all (no collider or emitter update, no boundary-solver call, no hook,
\* no force, diffusion, pressure or advection call), leaves the grid system
\* and the solver as they are and returns to the time integrator, which then
\* advances its clock by the substep
C12_EmptyGridSkipsSubStep ==
    [][/\ (pc = "onAdvanceTimeStep" /\ someAxisIsZero) =>
              /\ calls' = <<>>
              /\ pc' = "subStepDone"
              /\ UNCHANGED <<gridVars, solverVars, animVars, lastVelocityWrite,
                             advections>>
       /\ (pc = "subStepDone" /\ someAxisIsZero) =>
              /\ currentTime' = RAdd(currentTime, actualTimeInterval)
              /\ pc' \in {"fixedLoop", "adaptiveLoop"}]_vars

\* a substep was skipped on an empty grid although a collider and an emitter
\* are set
C12_Witness ==
    /\ pc = "subStepDone"
    /\ someAxisIsZero
    /\ collider
    /\ emitter
    /\ calls = <<>>

\* the stage at pc makes no call of its own and writes nothing
stageSkipped(stage, next) ==
    /\ calls' = Append(calls, stage)
    /\ pc' = next
    /\ UNCHANGED <<gridVars, lastVelocityWrite>>

\* C13: a stage whose solver pointer is null makes no solver call and writes
\* no grid (for each of the diffusion, pressure and advection solvers on its
\* own), and the substep still runs all six stages in their order and
\* completes
C13_NullSolverSkipsStage ==
    [][/\ (pc = "computeViscosity" /\ ~diffusionSolver) =>
              stageSkipped("computeViscosity", "computePressure")
       /\ (pc = "computePressure" /\ ~pressureSolver) =>
              stageSkipped("computePressure", "computeAdvection")
       /\ (pc = "computeAdvection" /\ ~advectionSolver) =>
              stageSkipped("computeAdvection", "endAdvanceTimeStep") /\ advections' = <<>>
       /\ (pc = "subStepDone" /\ ~someAxisIsZero) =>
              /\ stagesRun = StageOrder
              /\ ~diffusionSolver => "diffusionSolver.solve" \notin rangeOf(calls)
              /\ ~pressureSolver => "pressureSolver.solve" \notin rangeOf(calls)
              /\ ~advectionSolver => "advect.velocity" \notin rangeOf(calls)]_vars

\* a substep has completed with only the pressure solver null: diffusion and
\* advection were solved, pressure was not
C13_Witness ==
    /\ pc = "subStepDone"
    /\ ~pressureSolver /\ diffusionSolver /\ advectionSolver
    /\ stagesRun = StageOrder
    /\ "diffusionSolver.solve" \in rangeOf(calls)
    /\ "advect.velocity" \in rangeOf(calls)
    /\ "pressureSolver.solve" \notin rangeOf(calls)

\* ------------------------------------------------------------------------
\* Boundary-condition solvers
\* ------------------------------------------------------------------------
constrained == bndCalls.op = "constrainVelocity"

\* the face is a domain-boundary face of a direction in the flag: Left/Right
\* are u at i = 0 / i = Nx, Down/Up are v at j = 0 / j = Ny, Back/Front are w
\* at k = 0 / k = Nz
inClosedDirection(f) ==
    \/ f[1] = 1 /\ f[2][1] = 0 /\ "Left" \in closedDomainBoundaryFlag
    \/ f[1] = 1 /\ f[2][1] = bndGridSize[1] /\ "Right" \in closedDomainBoundaryFlag
    \/ f[1] = 2 /\ f[2][2] = 0 /\ "Down" \in closedDomainBoundaryFlag
    \/ f[1] = 2 /\ f[2][2] = bndGridSize[2] /\ "Up" \in closedDomainBoundaryFlag
    \/ f[1] = 3 /\ f[2][3] = 0 /\ "Back" \in closedDomainBoundaryFlag
    \/ f[1] = 3 /\ f[2][3] = bndGridSize[3] /\ "Front" \in closedDomainBoundaryFlag

\* C14: a boundary-condition solver of any of the four classes, updated with
\* a null collider and any set of closed directions, turns a uniformly filled
\* face-centered grid into one that is 0 on every domain-boundary face of a
\* closed direction and still the fill value on every other face (the
\* boundary faces of open directions and the interior faces)
C14_ClosedSidesZeroed ==
    (constrained /\ bndCalls.onFilled /\ bndCollider.null) =>
        \A f \in DOMAIN faceVelocity :
            faceVelocity[f] = IF inClosedDirection(f) THEN 0 ELSE bndCalls.fill

\* the blocked 2-D solver, closed on the left and at the top, has constrained
\* a filled grid
C14_Witness ==
    /\ constrained /\ bndCalls.onFilled /\ bndCollider.null
    /\ bndVariant = "Blocked2"
    /\ bndGridSize = <<2, 2>>
    /\ closedDomainBoundaryFlag = {"Left", "Up"}
    /\ faceVelocity[<<1, <<0, 1>>>>] = 0
    /\ faceVelocity[<<1, <<2, 1>>>>] = -2
    /\ faceVelocity[<<2, <<1, 1>>>>] = -2

\* cells c and n are neighbours along the axis
neighbours(c, n, axis) ==
    /\ n[axis] - c[axis] \in {-1, 1}
    /\ \A b \in (1 .. Len(c)) \ {axis} : n[b] = c[b]

\* the face between two neighbouring cells: it has the larger index
sharedFace(c, n, axis) == <<axis, IF n[axis] > c[axis] THEN n ELSE c>>

\* faces between a collider cell and a fluid cell
interfaceFaces ==
    {f \in DOMAIN faceVelocity :
        \E c, n \in DOMAIN marker :
            /\ marker[c] = kCollider /\ marker[n] = kFluid
            /\ neighbours(c, n, f[1])
            /\ f = sharedFace(c, n, f[1])}

\* C15: after GridBlockedBoundaryConditionSolver2::constrainVelocity every
\* face shared by a collider cell and a fluid neighbour along x or y holds
\* the collider velocity component normal to the face, taken at the face
\* position; every other face is as the fractional base class left it; with
\* a null collider nothing is written and the collider is never used
C15_InterfaceFacesTakeColliderVelocity ==
    (constrained /\ bndVariant = "Blocked2") =>
        /\ \A f \in interfaceFaces :
              faceVelocity[f] = velocityAt(bndCollider, facePosition(f))[f[1]]
        /\ \A f \in DOMAIN faceVelocity \ interfaceFaces :
              faceVelocity[f] = baseVelocity[f]
        /\ bndCollider.null => bndCalls.written = {} /\ bndCalls.colliderUses = 0

\* the collider cell (0,0) of a 2x2 grid has fluid neighbours to the right
\* and above; the face to the right was blended by the base class and then
\* overwritten
C15_Witness ==
    /\ constrained /\ bndVariant = "Blocked2"
    /\ bndGridSize = <<2, 2>>
    /\ ~bndCollider.null /\ bndCollider.at = <<0, 0>>
    /\ interfaceFaces = {<<1, <<1, 0>>>>, <<2, <<0, 1>>>>}
    /\ baseVelocity[<<1, <<1, 0>>>>] \in Blends
    /\ faceVelocity[<<1, <<1, 0>>>>] = 2
    /\ faceVelocity[<<2, <<0, 1>>>>] = 5

\* ------------------------------------------------------------------------
\* MatrixCsr
\* ------------------------------------------------------------------------
\* C16: after m.compress(D, epsilon) with a dense expression D, on a matrix m
\* in any prior state, m has the dimensions of D and m(i,j) is D(i,j) where
\* |D(i,j)| > epsilon and 0 elsewhere
C16_CompressReproducesDense ==
    csrOp.name = "compress(expression)" =>
        /\ csrM.defined
        /\ csrM.size = shapeOf(csrOp.dense)
        /\ \A i \in 0 .. csrM.size[1] - 1, j \in 0 .. csrM.size[2] - 1 :
              /\ hasElementDefined(csrM, i, j)
              /\ at(csrM, i, j) =
                     IF Abs(csrOp.dense[i + 1][j + 1]) > csrOp.epsilon
                     THEN csrOp.dense[i + 1][j + 1] ELSE 0

\* C17: in every state of a matrix reached by construction, clear, compress,
\* addRow, addElement and setElement, the row-pointer array has rows() + 1
\* entries, starts at 0, never decreases and ends at numberOfNonZeros(), and
\* the column indices stored for a row increase strictly and are below cols()
C17_CsrWellFormed ==
    /\ csrM.defined
    /\ Len(csrM.rowPointers) = csrM.size[1] + 1
    /\ csrM.rowPointers[1] = 0
    /\ \A k \in 1 .. Len(csrM.rowPointers) - 1 :
          csrM.rowPointers[k] <= csrM.rowPointers[k + 1]
    /\ csrM.rowPointers[Len(csrM.rowPointers)] = Len(csrM.nonZeros)
    /\ Len(csrM.columnIndices) = Len(csrM.nonZeros)
    /\ \A i \in 0 .. csrM.size[1] - 1 :
          \A k \in csrM.rowPointers[i + 1] .. csrM.rowPointers[i + 2] - 1 :
              /\ csrM.columnIndices[k + 1] < csrM.size[2]
              /\ k + 1 < csrM.rowPointers[i + 2] =>
                     csrM.columnIndices[k + 1] < csrM.columnIndices[k + 2]

\* C18: for matrices A and B of equal size, A.add(B) and A.sub(B) return a
\* matrix of the size of A whose entry (i,j) is A(i,j) + B(i,j), respectively
\* A(i,j) - B(i,j), also in rows where one operand stores fewer entries than
\* the other or none
C18_AddSubEntrywise ==
    csrOp.name \in {"add", "sub"} =>
        /\ csrRet.defined
        /\ csrRet.size = csrM.size
        /\ \A i \in 0 .. csrM.size[1] - 1, j \in 0 .. csrM.size[2] - 1 :
              at(csrRet, i, j) =
                  apply(IF csrOp.name = "add" THEN "plus" ELSE "minus",
                        at(csrM, i, j), at(csrB, i, j))

\* ------------------------------------------------------------------------
\* C19: resize(newSize, initVal) keeps every element whose index is below
\* min(oldSize, newSize) on each axis and sets every other element to
\* initVal; and after resizing from size A to size B and back to A every
\* element inside the per-axis overlap of A and B has its original value.
\* ------------------------------------------------------------------------
C19_ResizeKeepsOverlap ==
    array3Op.name = "resize" =>
        /\ Len(array3.data) = array3.size[1] * array3.size[2] * array3.size[3]
        /\ \A idx \in indicesOf(array3.size) :
              valueAt(array3, idx) =
                  IF inside(idx, array3Before.size)
                  THEN valueAt(array3Before, idx) ELSE array3Op.initVal
        /\ (array3Op.resizes = 2 /\ array3.size = array3Original.size) =>
              \A idx \in indicesOf(array3.size) :
                  inside(idx, array3Before.size) =>
                      valueAt(array3, idx) = valueAt(array3Original, idx)

\* an array with two different elements in the overlap was resized to a size
\* smaller on one axis and larger on another, and back, with a fill value
\* that is none of its elements
C19_Witness ==
    /\ array3Op.name = "resize"
    /\ array3Op.resizes = 2
    /\ array3.size = array3Original.size
    /\ \E a \in 1 .. 3, b \in 1 .. 3 :
          /\ array3Before.size[a] < array3.size[a]
          /\ array3Before.size[b] > array3.size[b]
    /\ \E idx \in indicesOf(array3.size), other \in indicesOf(array3.size) :
          /\ inside(idx, array3Before.size)
          /\ inside(other, array3Before.size)
          /\ valueAt(array3Original, idx) # valueAt(array3Original, other)
    /\ \E idx \in indicesOf(array3.size) :
          /\ ~inside(idx, array3Before.size)
          /\ valueAt(array3, idx) = array3Op.initVal
          /\ valueAt(array3Original, idx) # array3Op.initVal

\* ------------------------------------------------------------------------
\* C20: in the nearest, linear and cubic samplers no call, constructor or
\* operator(), divides by a grid spacing that has a non-positive component:
\* the assertion stops the call before the division.
\* ------------------------------------------------------------------------
C20_NoDivisionByNonPositiveSpacing ==
    \A n \in DOMAIN samplerCall.steps :
        samplerCall.steps[n].step = "divide" =>
            spacingAccepted(samplerCall.steps[n].by)

\* ------------------------------------------------------------------------
\* C21 as stated: on a scalar grid of strictly positive spacing, for every
\* data index (i, j, k), sample(dataPosition(i, j, k)) through the linear
\* sampler returns exactly the stored value g(i, j, k), and all eight
\* indices the sampler reads are inside the array.
\* ------------------------------------------------------------------------
sampled == gridCall.name = "sample" /\ ~gridCall.thrown

readsInside ==
    gridCall.valid /\ gridCall.reads \subseteq indicesOf(scalarGrids[1].data.size)

C21_SampleAtDataPointIsStoredValue ==
    sampled =>
        /\ readsInside
        /\ gridCall.value = valueAt(scalarGrids[1].data, gridCall.index)

\* the coordinate the sampler computed from dataPosition(i, j, k) is (i, j, k)
coordinateExact ==
    \A c \in 1 .. 3 : gridCall.normalizedX[c] = FromInt(gridCall.index[c])

\* C21, amended: all eight indices read are inside the array for every data
\* index, and the sample is exactly g(i, j, k) whenever the coordinate
\* (dataPosition(i, j, k) - dataOrigin) / gridSpacing is computed without
\* rounding error, also on the last index of an axis and on an axis with a
\* single sample.
C21_SampleExactWhereCoordinateIsExact ==
    sampled =>
        /\ readsInside
        /\ coordinateExact =>
               gridCall.value = valueAt(scalarGrids[1].data, gridCall.index)

\* the last data point of an axis of a grid whose spacing is not 1 and whose
\* neighbouring samples differ was sampled, the coordinate came out exact
C21_Witness ==
    /\ sampled
    /\ coordinateExact
    /\ scalarGrids[1].gridSpacing[1] # One
    /\ scalarGrids[1].data.size = <<2, 1, 1>>
    /\ gridCall.index = <<1, 0, 0>>
    /\ valueAt(scalarGrids[1].data, <<0, 0, 0>>) # valueAt(scalarGrids[1].data, <<1, 0, 0>>)
    /\ gridCall.value = valueAt(scalarGrids[1].data, gridCall.index)

\* ------------------------------------------------------------------------
\* C26: in every state of a ScalarGrid3 reached by construction and any
\* sequence of resize, clear, setScalarGrid and swapScalarGrid, the sampler
\* behind sample() and sampler() is set and was built for the grid's
\* current data array, data size, grid spacing and data origin.
\* ------------------------------------------------------------------------
samplerCurrent(g) ==
    /\ g.sampler.set
    /\ g.sampler.sampler =
           linearArraySampler(constAccessor(g), g.gridSpacing, dataOrigin(g))

C26_SamplerIsCurrent == samplerCurrent(scalarGrids[1])

\* ------------------------------------------------------------------------
\* C22: after any sequence of the four add calls and resize on a grid
\* system, advectableVectorDataAt(velocityIndex()) is the velocity grid,
\* velocityIndex() is below numberOfAdvectableVectorData(), and an add call
\* returns the index at which the new layer is read back from its own
\* collection and changes the count of no other collection.
\* ------------------------------------------------------------------------
C22_VelocityIndexAndReturnedIndices ==
    /\ gridSystem.velocityIdx < numberOfData(gridSystem)["advectableVector"]
    /\ dataAt(gridSystem, "advectableVector", gridSystem.velocityIdx)
          = gridSystem.velocity
    /\ gridSystemCall.collection \in Collections =>
          /\ gridSystemCall.returned
                < numberOfData(gridSystem)[gridSystemCall.collection]
          /\ dataAt(gridSystem, gridSystemCall.collection, gridSystemCall.returned)
                = gridSystemCall.created
          /\ \A c \in Collections \ {gridSystemCall.collection} :
                numberOfData(gridSystem)[c] = gridSystemCall.before[c]

\* a second advectable vector layer was added to a system that has a layer
\* in every collection and has been resized
C22_Witness ==
    /\ gridSystemCall.name = "addAdvectableVectorData"
    /\ gridSystemCall.returned = 2
    /\ gridSystem.resolution # <<0, 0, 0>>
    /\ \A c \in Collections : numberOfData(gridSystem)[c] >= 1


\* ------------------------------------------------------------------------
\* C23
\* ------------------------------------------------------------------------
solverCalls ==
    {k \in 1 .. Len(solves) :
        solves[k].op \in {"diffusionSolver.solve", "pressureSolver.solve", "advect"}}
orchestratorWrites ==
    {k \in 1 .. Len(solves) :
        solves[k].op \in {"extrapolateIntoCollider", "constrainVelocity"}}

\* C23: every diffusion, pressure and advection call of the solver reads a
\* clone made by the statement right before the call from the very layer
\* the call writes; the destination is the live layer and differs from the
\* source and from the flow field, and nothing the solver itself writes
\* between the calls is a clone
C23_SourceIsFreshCloneOfDestination ==
    /\ \A k \in solverCalls :
          /\ k > 1
          /\ solves[k - 1].op = "clone"
          /\ solves[k - 1].output = solves[k].input
          /\ solves[k - 1].input = solves[k].output
          /\ solves[k].output[1] = "live"
          /\ solves[k].input[1] = "clone"
          /\ solves[k].input # solves[k].output
          /\ solves[k].flow # solves[k].output
    /\ \A k \in orchestratorWrites : solves[k].output[1] = "live"

\* a substep has run the diffusion solver, the pressure solver and the
\* advection of a scalar layer, of a vector layer other than the velocity and
\* of the velocity itself
C23_Witness ==
    /\ pc = "endAdvanceTimeStep"
    /\ \E k \in solverCalls : solves[k].op = "diffusionSolver.solve"
    /\ \E k \in solverCalls : solves[k].op = "pressureSolver.solve"
    /\ \E k \in solverCalls :
          solves[k].op = "advect" /\ solves[k].output[2] = "scalar"
    /\ \E k \in solverCalls :
          /\ solves[k].op = "advect"
          /\ solves[k].output[2] = "vector"
          /\ solves[k].output # live(velocityLayer)
    /\ \E k \in solverCalls :
          /\ solves[k].op = "advect"
          /\ solves[k].output = live(velocityLayer)
          /\ solves[k].flow = solves[k].input

\* ------------------------------------------------------------------------
\* C24
\* ------------------------------------------------------------------------
\* the marker of a call has the size of the array and holds 0 exactly where
\* the collider distance at the entry's own position is negative
markerMatches(call, grid, array, field) ==
    /\ call.valid.size = array.size
    /\ Len(call.valid.data) = array.size[1] * array.size[2] * array.size[3]
    /\ \A idx \in indicesOf(array.size) :
          valueAt(call.valid, idx) =
              (IF sdfSample(field, dataPositionOf(grid, array, idx)) < 0 THEN 0 ELSE 1)

\* C24: a call of extrapolateIntoCollider makes one extrapolateToRegion call
\* per array of the grid (the data of a scalar or collocated grid; u, v and
\* w of a face-centered grid), each with a marker of that array's size that
\* is 0 where the collider distance at the entry's data position is inside
\* and 1 elsewhere, with depth ceil(maxCfl) and with the array as both
\* source and destination
C24_MarkerPerArray ==
    [][extrapolations' # extrapolations =>
          LET arrays == targetArrays(targetGrid)
              names == IF targetGrid.kind = "faceCentered" THEN <<"u", "v", "w">>
                       ELSE <<"data">>
          IN /\ Len(extrapolations') = Len(names)
             /\ \A n \in 1 .. Len(names) :
                   /\ extrapolations'[n].input = names[n]
                   /\ extrapolations'[n].output = names[n]
                   /\ extrapolations'[n].numberOfIterations = RCeil(maxCfl)
                   /\ markerMatches(extrapolations'[n], targetGrid, arrays[n],
                                    colliderField)]_vars

\* a face-centered grid has been extrapolated with markers that hold both
\* values
C24_Witness ==
    /\ Len(extrapolations) = 3
    /\ targetGrid.kind = "faceCentered"
    /\ \A n \in 1 .. 3 :
          /\ extrapolations[n].valid.size = faceSizeOf(targetGrid.resolution, n)
          /\ \E idx \in indicesOf(extrapolations[n].valid.size) :
                valueAt(extrapolations[n].valid, idx) = 0
          /\ \E idx \in indicesOf(extrapolations[n].valid.size) :
                valueAt(extrapolations[n].valid, idx) = 1

\* ------------------------------------------------------------------------
\* C25
\* ------------------------------------------------------------------------
\* the adaptive loop has been left with nothing but the epsilon remaining
adaptiveLoopLeft == pc = "onUpdate" /\ RLeq(remainingTime, kEpsilonD)

\* C25: in adaptive mode every iteration of the sub-step loop leaves strictly
\* less remaining time than it found, whatever velocity the sub-step leaves,
\* and every advanceTimeStep call returns, with the remaining time at or
\* below the epsilon
C25_AdaptiveTerminates ==
    /\ [][(pc = "subStepDone" /\ ~isUsingFixedSubTimeSteps) =>
              RLt(remainingTime', remainingTime)]_vars
    /\ (pc = "adaptiveLoop") ~> adaptiveLoopLeft

\* an adaptive advanceTimeStep has returned after three sub-steps
C25_Witness ==
    /\ advanceTimeStepReturned
    /\ ~isUsingFixedSubTimeSteps
    /\ Len(steps) >= 3
    /\ RLeq(remainingTime, kEpsilonD)

\* ------------------------------------------------------------------------
\* C27
\* ------------------------------------------------------------------------
\* the elements of the buffer that belong to a parameter, by the size of the
\* values of its type
rangeOfParameter(m) ==
    {m.offset + i : i \in 1 .. Len(valueOf(m.type, 0))}

\* C27: add(name, value) with a fresh name, whatever the type, completes,
\* makes has(name) true, lets buffer(name) read the value back and gives the
\* parameter a range of elements inside the buffer that meets no other
\* parameter's range; set(name, v) changes the elements of that parameter
\* only, and the buffer always holds a multiple of 16 elements
C27_ParametersStoredApart ==
    LET params == renderParameters
        call == parameterCall
        n == Len(call.value)
    IN /\ Len(params.buffer) % 16 = 0
       /\ \A k, l \in 1 .. Len(params.metadata) :
             /\ rangeOfParameter(params.metadata[k]) \subseteq 1 .. Len(params.buffer)
             /\ k # l => rangeOfParameter(params.metadata[k])
                             \cap rangeOfParameter(params.metadata[l]) = {}
       /\ call.op = "add" =>
             /\ ~call.aborted
             /\ has(params, call.name)
             /\ readable(params, call.name, n)
             /\ readFrom(params, call.name, n) = call.value
       /\ call.op = "set" =>
             /\ ~call.aborted
             /\ readable(params, call.name, n)
             /\ readFrom(params, call.name, n) = call.value
             /\ Len(params.buffer) = Len(call.before.buffer)
             /\ \A i \in 1 .. Len(params.buffer) :
                   i \notin rangeOfParameter(metadataOf(params, call.name)) =>
                       params.buffer[i] = call.before.buffer[i]

\* ------------------------------------------------------------------------
\* C28
\* ------------------------------------------------------------------------
\* build has returned
built == building.pc = "done"
\* the stored positions whose key is this key
positionsOfKey(key) == {j \in DOMAIN searcher.keys : searcher.keys[j] = key}

C30_CallbackOncePerNearbyPoint ==
    (nearby.origin # <<>>) =>
        /\ \A k, l \in 1 .. Len(nearby.callbacks) :
              k # l => nearby.callbacks[k].index # nearby.callbacks[l].index
        /\ \A k \in 1 .. Len(nearby.callbacks) :
              /\ nearby.callbacks[k].index \in DOMAIN building.points
              /\ building.points[nearby.callbacks[k].index]
                     = nearby.callbacks[k].point
              /\ withinRadius(nearby.callbacks[k].point, nearby.origin,
                              nearby.radius)
        /\ nearby.has = (nearby.callbacks # <<>>)

\* ------------------------------------------------------------------------
\* C29
\* ------------------------------------------------------------------------
\* the pressure solver installed by the last setPressureSolver call with a
\* solver, or by the constructor if there was none
RECURSIVE lastInstalled(_)
lastInstalled(made) ==
    IF made = <<>> THEN "fractional"
    ELSE LET call == made[Len(made)]
         IN IF call.op = "setPressureSolver" /\ call.newSolver # nullSolver
            THEN call.newSolver
            ELSE lastInstalled(SubSeq(made, 1, Len(made) - 1))

\* C29: after any calls of setPressureSolver, with a solver or with the null
\* pointer, and of setClosedDomainBoundaryFlag, the boundary-condition solver
\* that applyBoundaryCondition uses has the flag closedDomainBoundaryFlag()
\* returns and is the one suggested by the pressure solver installed last
C29_BoundarySolverFollowsSetters ==
    /\ fluidSolver.boundaryConditionSolver.closedDomainBoundaryFlag
           = fluidSolver.closedDomainBoundaryFlag
    /\ fluidSolver.boundaryConditionSolver.suggestedBy = lastInstalled(setterCalls)

\* the flag was changed, then another pressure solver installed, then the
\* pressure solver removed
C29_Witness ==
    /\ Len(setterCalls) = 3
    /\ setterCalls[1].op = "setClosedDomainBoundaryFlag"
    /\ setterCalls[1].flag = {"Left", "Up", "Front"}
    /\ setterCalls[2].op = "setPressureSolver"
    /\ setterCalls[2].newSolver = "singlePhase"
    /\ setterCalls[3].op = "setPressureSolver"
    /\ setterCalls[3].newSolver = nullSolver
    /\ fluidSolver.pressureSolver = nullSolver

====
